---- MODULE Spec2Model ----
(***************************************************************************)
(* A model of the IRPC call layer (beerush-id/irpc):                       *)
(*   - the micro-batching scheduler      packages/irpc/src/batch.ts        *)
(*   - the module, remoteCall and submit packages/irpc/src/module.ts       *)
(*   - the one-shot IRPCCall             packages/irpc/src/call.ts         *)
(*   - HTTPTransport.send / respond      packages/http/src/index.ts        *)
(* Each part has its own specification over the shared variables:          *)
(*   SpecBatch   batch() driven directly with arbitrary calls and handlers *)
(*   Spec        stubs of two modules, remoteCall, timers, submit          *)
(*   SpecSend    HTTPTransport.send over one batch and its response stream *)
(*   SpecRespond HTTPTransport.respond over one inbound batch              *)
(*   SpecWire    one batch from send, through respond, back to send        *)
(*   SpecFactory define, construct, use, resolve and stubs of one module   *)
(*   SpecId      shortId under a clock that may be set back                *)
(*   SpecContext the context provider, with and without a provider         *)
(*   SpecTimed   batch() under a clock and run-to-completion tasks         *)
(*   SpecTimers  the module layer under a scheduler that runs its timers   *)
(*   SpecServe   respond for two inbound requests at once, with a provider *)
(***************************************************************************)
EXTENDS Integers, Sequences, FiniteSets, TLC

VARIABLES
    IRPC_QUEUE,   \* batch.ts:3   the shared Set<IRPCCall>, in insertion order
    timers,       \* batch.ts:18  pending setTimeout flush callbacks (their handler)
    cycle,        \* history: calls passed to batch() while a flush is pending
    flushes,      \* history: every handler invocation made by a flush
    passes        \* history: number of batch() invocations so far

VARIABLES
    transport,    \* module.ts:101 module.transport of each module
    timeout,      \* module.ts:34  module.timeout of each module
    calls,        \* one record per stub invocation that went to remoteCall
    sends,        \* one record per Transport.send invocation made by a submit
    nSettles      \* history: resolve/reject invocations made by transports

VARIABLES
    payloads,     \* call.payload of each Call handed to HTTPTransport.send
    httpPc,       \* where HTTPTransport.send (and the submit that called it) is
    body,         \* the outgoing request body of fetch
    results,      \* the results array of send: the id of every decoded line, in order
    linesRead     \* history: number of response lines send has read

VARIABLES
    requests,     \* respond: the decoded Requests of the inbound body, in order
    middlewares,  \* the middleware registered with transport.use, in order
    mwState,      \* what has become of each middleware invocation
    respondPc,    \* where respond is
    pending,      \* the requests Set of respond: the Requests not finalized
    reqState,     \* what has become of each Request
    stream,       \* the ReadableStream of the Response
    startThrew,   \* start() has thrown and its rejection is yet to be handled
    enqueued,     \* the chunks given to controller.enqueue, in order
    closes,       \* number of controller.close() invocations
    ctx,          \* the Context respond creates for the batch
    seen          \* history: what getContext returned in each handler invoked

VARIABLES
    hosts,        \* module.ts:41 the host objects define() has created, in order
    store,        \* module.ts:31 store: the host held under each name
    lastOp        \* history: the latest operation on the factory and its outcome

batchVars == <<IRPC_QUEUE, timers, cycle, flushes, passes>>
moduleVars == <<transport, timeout, calls, sends, nSettles>>

httpVars == <<payloads, httpPc, body, results, linesRead>>
serverVars == <<requests, middlewares, mwState, respondPc, pending, reqState,
                stream, startThrew, enqueued, closes, ctx, seen>>

factoryVars == <<hosts, store, lastOp>>

VARIABLES
    now,            \* the reading of the clock (Date.now()), in milliseconds
    lastTimestamp,  \* utils.ts:1 lastTimestamp
    sequence,       \* utils.ts:2 sequence
    issued          \* history: every identifier shortId has returned, in order

utilVars == <<now, lastTimestamp, sequence, issued>>

VARIABLES
    provider,       \* context.ts: the provider given to setContextProvider
    ambient,        \* the Map provider.getStore() reports, if any
    ctxOp           \* history: the latest context operation and its outcome

contextVars == <<provider, ambient, ctxOp>>

VARIABLES
    inTurn,         \* a task of caller code is running (the scheduler is not)
    turns,          \* history: number of tasks the scheduler has started
    due,            \* the deadline of each pending setTimeout of batch()
    arrivals        \* history: the batch() invocations of the open flush cycle

timedVars == <<inTurn, turns, due, arrivals>>

VARIABLES
    served,       \* respond, once per inbound request: where it is, its Context,
                  \* its requests Set and its handlers
    lastRun,      \* the inbound request of the latest provider.run (0: none)
    lastGet       \* history: the latest getContext of a handler and its result

serveVars == <<served, lastRun, lastGet>>

restVars == <<utilVars, contextVars, timedVars, serveVars>>

vars == <<batchVars, moduleVars, httpVars, serverVars, factoryVars, restVars>>

\* the parts of the state a specification does not use stay as they are here
BatchIdle ==
    /\ cycle = <<>>
    /\ flushes = <<>>
    /\ passes = 0

ModuleIdle ==
    /\ transport = <<>>
    /\ timeout = <<>>
    /\ calls = <<>>
    /\ sends = <<>>
    /\ nSettles = 0

HttpIdle ==
    /\ payloads = <<>>
    /\ httpPc = "unused"
    /\ body = <<>>
    /\ results = <<>>
    /\ linesRead = 0

ServerIdle ==
    /\ requests = <<>>
    /\ middlewares = <<>>
    /\ mwState = <<>>
    /\ respondPc = "unused"
    /\ pending = {}
    /\ reqState = <<>>
    /\ stream = "none"
    /\ startThrew = FALSE
    /\ enqueued = <<>>
    /\ closes = 0
    /\ ctx = <<>>
    /\ seen = <<>>

\* no operation on the factory yet
NoOp ==
    [op |-> "none", stub |-> 0, name |-> "", args |-> <<>>, value |-> "",
     thrown |-> "", invoked |-> "none", result |-> 0]

FactoryIdle ==
    /\ hosts = <<>>
    /\ store = <<>>
    /\ lastOp = NoOp

UtilIdle ==
    /\ now = 0
    /\ lastTimestamp = 0
    /\ sequence = 0
    /\ issued = <<>>

NoCtxOp ==
    [op |-> "none", key |-> "", value |-> "", fallback |-> "", returned |-> "",
     ran |-> FALSE, threw |-> FALSE]

ContextIdle ==
    /\ provider = "undefined"
    /\ ambient = [active |-> FALSE, map |-> <<>>]
    /\ ctxOp = NoCtxOp

TimedIdle ==
    /\ inTurn = FALSE
    /\ turns = 0
    /\ due = <<>>
    /\ arrivals = <<>>

\* no getContext of a handler yet
NoGet == [batch |-> 0, key |-> "", returned |-> ""]

ServeIdle ==
    /\ served = <<>>
    /\ lastRun = 0
    /\ lastGet = NoGet

RestIdle ==
    /\ UtilIdle
    /\ ContextIdle
    /\ TimedIdle
    /\ ServeIdle

----------------------------------------------------------------------------
(* Bounds *)

MaxPasses == 4      \* batch() invocations explored by SpecBatch
NumCalls == 3       \* distinct IRPCCall objects handed to batch() in SpecBatch
MaxInvocations == 2 \* stub invocations explored by Spec
MaxSettles == 2     \* resolve/reject invocations made by transports in Spec
MaxBatch == 3       \* Calls in the batch handed to HTTPTransport.send
MaxLines == 2       \* response lines read by HTTPTransport.send
MaxRequests == 2    \* Requests in the batch handed to HTTPTransport.respond
MaxMiddleware == 2  \* middleware registered with the transport in SpecRespond
MaxWire == 2        \* Calls of the batch that SpecWire takes from stub to stream
MaxHosts == 2       \* define() invocations explored by SpecFactory
MaxIds == 4         \* identifiers issued by shortId in SpecId
MaxClock == 2       \* the clock reads 0..MaxClock in SpecId
MaxTimed == 3       \* batch() invocations explored by SpecTimed
MaxTime == 2        \* milliseconds that pass in SpecTimed
MaxServed == 2      \* Requests in each of the two batches of SpecServe
MaxTimerCalls == 2  \* stub invocations explored by SpecTimers
MaxTimerSettles == 1 \* resolve/reject invocations made by transports in SpecTimers

----------------------------------------------------------------------------
(* Helpers *)

Range(s) == {s[i] : i \in 1..Len(s)}

Last(s) == s[Len(s)]

\* s without the later occurrences of an element (first occurrence kept)
RECURSIVE Dedup(_)
Dedup(s) ==
    IF s = <<>> THEN <<>>
    ELSE LET front == Dedup(SubSeq(s, 1, Len(s) - 1))
         IN IF Last(s) \in Range(front) THEN front ELSE Append(front, Last(s))

----------------------------------------------------------------------------
(* batch.ts *)

BatchCalls == 1..NumCalls
Handlers == {"h1", "h2"}

\* a plausible slip: the call is put in front of the queue
QueueAddFront(q, call) == IF call \in Range(q) THEN q ELSE <<call>> \o q

\* IRPC_QUEUE.add(call): a Set keeps insertion order and ignores a member
QueueAdd(q, call) == IF call \in Range(q) THEN q ELSE Append(q, call)

\* batch(call, handler): the state of (queue, timers) after the call
BatchOp(q, ts, call, handler) ==
    [queue  |-> QueueAdd(q, call),
     timers |-> IF Len(q) = 0 THEN Append(ts, handler) ELSE ts]

\* the window of a flush cycle is open while its deferred flush is pending
WindowOpen(ts) == ts # <<>>

BatchInit ==
    /\ IRPC_QUEUE = <<>>
    /\ timers = <<>>
    /\ cycle = <<>>
    /\ flushes = <<>>
    /\ passes = 0
    /\ ModuleIdle
    /\ HttpIdle
    /\ ServerIdle
    /\ FactoryIdle
    /\ RestIdle

\* a caller invokes batch(call, handler)
Batch(call, handler) ==
    /\ passes < MaxPasses
    /\ LET r == BatchOp(IRPC_QUEUE, timers, call, handler)
       IN /\ IRPC_QUEUE' = r.queue
          /\ timers' = r.timers
          /\ cycle' = IF WindowOpen(r.timers) THEN Append(cycle, call) ELSE cycle
    /\ passes' = passes + 1
    /\ UNCHANGED <<restVars, flushes, moduleVars, httpVars, serverVars, factoryVars>>

\* the setTimeout callback fires: handler([...IRPC_QUEUE.values()]) and then
\* IRPC_QUEUE.clear().  The handler is caller code: it may pass another call
\* to batch() while it runs (reenter), and it may throw, in which case the
\* clear() of line 20 is not reached.
Flush(throws, reenter, call, handler) ==
    /\ timers # <<>>
    /\ reenter => passes < MaxPasses
    /\ LET h == Head(timers)
           snapshot == IRPC_QUEUE
           during == IF reenter
                     THEN BatchOp(IRPC_QUEUE, Tail(timers), call, handler)
                     ELSE [queue |-> IRPC_QUEUE, timers |-> Tail(timers)]
       IN /\ flushes' = Append(flushes,
                 [handler |-> h, calls |-> snapshot, threw |-> throws])
          /\ IRPC_QUEUE' = IF throws THEN during.queue ELSE <<>>
          /\ timers' = during.timers
    /\ cycle' = <<>>
    /\ passes' = IF reenter THEN passes + 1 ELSE passes
    /\ UNCHANGED <<restVars, moduleVars, httpVars, serverVars, factoryVars>>

BatchNext ==
    \/ \E c \in BatchCalls, h \in Handlers : Batch(c, h)
    \/ \E t \in BOOLEAN, r \in BOOLEAN, c \in BatchCalls, h \in Handlers :
          Flush(t, r, c, h)

SpecBatch == BatchInit /\ [][BatchNext]_vars

----------------------------------------------------------------------------
(* call.ts: IRPCCall, and the promise of remoteCall *)

Modules == {"A", "B"}
Transports == {"tA", "tB"}
\* the transport each module installs (one transport per module)
TransportOf == [m \in Modules |-> IF m = "A" THEN "tA" ELSE "tB"]
NoTransport == "none"

DEFAULT_TIMEOUT == 20000

TimeoutError == "IRPC timeout."
TransportNotFound == "IRPC transport can not be found."
SendError == "send failed"
RemoteError == "remote error"
RemoteValue == "remote value"

NoAttempt == [by |-> "none", kind |-> "none", value |-> "none"]

\* a JavaScript promise settles once: resolve and reject of a settled promise
\* do nothing
PromiseSettle(promise, kind, value) ==
    IF promise = <<"pending">> THEN <<kind, value>> ELSE promise

\* clearTimeout(timeout): a timer that has not fired is cancelled
ClearTimeout(timer) == IF timer = "armed" THEN "cleared" ELSE timer

\* the resolver remoteCall gives the IRPCCall: resolve(value); clearTimeout(timeout)
Resolver(c, value) ==
    [c EXCEPT !.promise = PromiseSettle(c.promise, "resolved", value),
              !.timer = ClearTimeout(c.timer),
              !.nResolver = c.nResolver + 1,
              !.observed = <<"resolved", value>>]

\* the rejector remoteCall gives the IRPCCall: reject(reason); clearTimeout(timeout)
Rejector(c, reason) ==
    [c EXCEPT !.promise = PromiseSettle(c.promise, "rejected", reason),
              !.timer = ClearTimeout(c.timer),
              !.nRejector = c.nRejector + 1,
              !.observed = <<"rejected", reason>>]

\* a plausible slip: resolve without the resolved guard
CallResolveUnguarded(c, value) == Resolver([c EXCEPT !.resolved = TRUE], value)

\* IRPCCall.resolve(value): nothing when resolved, else resolved = true and
\* the resolver is invoked
CallResolve(c, value) ==
    IF c.resolved THEN c ELSE Resolver([c EXCEPT !.resolved = TRUE], value)

\* IRPCCall.reject(reason): nothing when resolved, else resolved = true and
\* the rejector is invoked
CallReject(c, reason) ==
    IF c.resolved THEN c ELSE Rejector([c EXCEPT !.resolved = TRUE], reason)

\* history: who invoked resolve/reject on the call first, and how often it
\* has been invoked at all
Noted(c, by, kind, value) ==
    [c EXCEPT !.attempts = c.attempts + 1,
              !.first = IF c.attempts = 0
                        THEN [by |-> by, kind |-> kind, value |-> value]
                        ELSE c.first]

\* call.resolve(value) / call.reject(reason) invoked by `by`
ResolveBy(c, by, value) == Noted(CallResolve(c, value), by, "resolved", value)
RejectBy(c, by, reason) == Noted(CallReject(c, reason), by, "rejected", reason)

----------------------------------------------------------------------------
(* module.ts: createModule, remoteCall, module.submit *)

\* a remoteCall that starts the timeout timer before it looks at the transport
NewCallTimerFirst(m, hasTransport, timed) ==
    [module    |-> m,
     created   |-> hasTransport,
     resolved  |-> FALSE,
     promise   |-> IF hasTransport THEN <<"pending">>
                   ELSE <<"rejected", TransportNotFound>>,
     timer     |-> IF timed THEN "armed" ELSE "none",
     nResolver |-> 0,
     nRejector |-> 0,
     observed  |-> <<"nothing">>,
     attempts  |-> 0,
     first     |-> NoAttempt]

\* a remoteCall that starts the timeout timer whatever module.timeout is
NewCallAlwaysTimed(m, hasTransport, timed) ==
    [module    |-> m,
     created   |-> hasTransport,
     resolved  |-> FALSE,
     promise   |-> IF hasTransport THEN <<"pending">>
                   ELSE <<"rejected", TransportNotFound>>,
     timer     |-> IF hasTransport THEN "armed" ELSE "none",
     nResolver |-> 0,
     nRejector |-> 0,
     observed  |-> <<"nothing">>,
     attempts  |-> 0,
     first     |-> NoAttempt]

\* a remoteCall that starts no timeout timer
NewCallUntimed(m, hasTransport, timed) ==
    [module    |-> m,
     created   |-> hasTransport,
     resolved  |-> FALSE,
     promise   |-> IF hasTransport THEN <<"pending">>
                   ELSE <<"rejected", TransportNotFound>>,
     timer     |-> "none",
     nResolver |-> 0,
     nRejector |-> 0,
     observed  |-> <<"nothing">>,
     attempts  |-> 0,
     first     |-> NoAttempt]

\* the Call and the promise remoteCall makes for a stub of module m
NewCall(m, hasTransport, timed) ==
    [module    |-> m,
     created   |-> hasTransport,
     resolved  |-> FALSE,
     promise   |-> IF hasTransport THEN <<"pending">>
                   ELSE <<"rejected", TransportNotFound>>,
     timer     |-> IF hasTransport /\ timed THEN "armed" ELSE "none",
     nResolver |-> 0,
     nRejector |-> 0,
     observed  |-> <<"nothing">>,
     attempts  |-> 0,
     first     |-> NoAttempt]

\* a plausible slip: only the first call of the batch is rejected
RejectHead(cs, ids, by, reason) ==
    [i \in DOMAIN cs |->
        IF ids # <<>> /\ i = Head(ids) THEN RejectBy(cs[i], by, reason) ELSE cs[i]]

\* calls.forEach((call) => call.reject(reason))
RejectAll(cs, ids, by, reason) ==
    [i \in DOMAIN cs |->
        IF i \in Range(ids) THEN RejectBy(cs[i], by, reason) ELSE cs[i]]

\* a plausible slip: the timer rejects with the transport's error text
TimerRejectWrong(c) == RejectBy([c EXCEPT !.timer = "fired"], "timer", RemoteError)

\* the setTimeout callback of remoteCall: call.reject(new Error('IRPC timeout.'))
TimerReject(c) == RejectBy([c EXCEPT !.timer = "fired"], "timer", TimeoutError)

ModuleInit ==
    /\ IRPC_QUEUE = <<>>
    /\ timers = <<>>
    /\ BatchIdle
    /\ transport = [m \in Modules |-> NoTransport]
    \* createModule(config): module A is configured with or without a timeout,
    \* module B keeps the default
    /\ timeout \in {f \in [Modules -> {0, DEFAULT_TIMEOUT}] :
                        f["B"] = DEFAULT_TIMEOUT}
    /\ calls = <<>>
    /\ sends = <<>>
    /\ nSettles = 0
    /\ HttpIdle
    /\ ServerIdle
    /\ FactoryIdle
    /\ RestIdle

\* factory.use(transport) with a transport that has a send function
Use(m, t) ==
    /\ transport[m] # t
    /\ transport' = [transport EXCEPT ![m] = t]
    /\ UNCHANGED <<restVars, batchVars, timeout, calls, sends, nSettles,
                 httpVars, serverVars, factoryVars>>

\* remoteCall(module, spec, ...args) up to its return
RemoteCallStep(m) ==
    LET id == Len(calls) + 1
        has == transport[m] # NoTransport
        r == BatchOp(IRPC_QUEUE, timers, id, m)
    IN /\ calls' = Append(calls, NewCall(m, has, timeout[m] # 0))
       /\ IRPC_QUEUE' = IF has THEN r.queue ELSE IRPC_QUEUE
       /\ timers' = IF has THEN r.timers ELSE timers

\* a stub of module m whose host has no handler is invoked: remoteCall
RemoteCall(m) ==
    /\ Len(calls) < MaxInvocations
    /\ RemoteCallStep(m)
    /\ UNCHANGED <<restVars, cycle, flushes, passes, transport, timeout, sends, nSettles,
                 httpVars, serverVars, factoryVars>>

\* the deferred flush fires with module h's submit as its handler:
\* submit(calls) invokes module.transport.send(calls), which throws, returns
\* a promise, or returns something that is no promise; then the queue is cleared
FlushSubmit(outcome) ==
    /\ timers # <<>>
    /\ LET h == Head(timers)
           batch == IRPC_QUEUE
       IN /\ sends' = Append(sends,
                 [by |-> h, transport |-> transport[h], calls |-> batch,
                  state |-> outcome])
          /\ calls' = IF outcome = "threw"
                      THEN RejectAll(calls, batch, "submit", SendError)
                      ELSE calls
    /\ IRPC_QUEUE' = <<>>
    /\ timers' = Tail(timers)
    /\ UNCHANGED <<restVars, cycle, flushes, passes, transport, timeout, nSettles,
                 httpVars, serverVars, factoryVars>>

\* the promise returned by send rejects: the catch callback of submit runs
SendRejects(s) ==
    /\ sends[s].state = "pending"
    /\ sends' = [sends EXCEPT ![s].state = "rejected"]
    /\ calls' = RejectAll(calls, sends[s].calls, "submit", SendError)
    /\ UNCHANGED <<restVars, batchVars, transport, timeout, nSettles,
                 httpVars, serverVars, factoryVars>>

\* the promise returned by send fulfils: submit has nothing to do
SendFulfils(s) ==
    /\ sends[s].state = "pending"
    /\ sends' = [sends EXCEPT ![s].state = "fulfilled"]
    /\ UNCHANGED <<restVars, batchVars, transport, timeout, calls, nSettles,
                 httpVars, serverVars, factoryVars>>

\* the transport settles one Call it was given, whenever it likes
TransportSettles(s, c, kind) ==
    /\ c \in Range(sends[s].calls)
    /\ nSettles < MaxSettles
    /\ nSettles' = nSettles + 1
    /\ calls' = [calls EXCEPT ![c] =
          IF kind = "resolved"
          THEN ResolveBy(calls[c], "transport", RemoteValue)
          ELSE RejectBy(calls[c], "transport", RemoteError)]
    /\ UNCHANGED <<restVars, batchVars, transport, timeout, sends,
                 httpVars, serverVars, factoryVars>>

\* the timeout timer of a Call fires
TimeoutFires(c) ==
    /\ calls[c].timer = "armed"
    /\ calls' = [calls EXCEPT ![c] = TimerReject(calls[c])]
    /\ UNCHANGED <<restVars, batchVars, transport, timeout, sends, nSettles,
                 httpVars, serverVars, factoryVars>>

ModuleNext ==
    \/ \E m \in Modules : Use(m, TransportOf[m])
    \/ \E m \in Modules : RemoteCall(m)
    \/ \E o \in {"threw", "pending", "returned"} : FlushSubmit(o)
    \/ \E s \in DOMAIN sends : SendRejects(s)
    \/ \E s \in DOMAIN sends : SendFulfils(s)
    \/ \E s \in DOMAIN sends, c \in DOMAIN calls, k \in {"resolved", "rejected"} :
          TransportSettles(s, c, k)
    \/ \E c \in DOMAIN calls : TimeoutFires(c)

Spec == ModuleInit /\ [][ModuleNext]_vars

\* the module layer with fewer stub invocations and transport answers, for
\* the properties that need the scheduler to be fair
TimersNext ==
    \/ \E m \in Modules : Use(m, TransportOf[m])
    \/ \E m \in Modules : Len(calls) < MaxTimerCalls /\ RemoteCall(m)
    \/ \E o \in {"threw", "pending", "returned"} : FlushSubmit(o)
    \/ \E s \in DOMAIN sends : SendRejects(s)
    \/ \E s \in DOMAIN sends : SendFulfils(s)
    \/ \E s \in DOMAIN sends, c \in DOMAIN calls, k \in {"resolved", "rejected"} :
          nSettles < MaxTimerSettles /\ TransportSettles(s, c, k)
    \/ \E c \in DOMAIN calls : TimeoutFires(c)

\* the scheduler runs the callback of a setTimeout that is neither cleared
\* nor fired; nothing is assumed of the transport or of the callers
TimersRun == WF_vars(\E c \in DOMAIN calls : TimeoutFires(c))

SpecTimers == ModuleInit /\ [][TimersNext]_vars /\ TimersRun

----------------------------------------------------------------------------
(* packages/http/src/index.ts: HTTPTransport.send, used by module A *)

InvalidArguments == "Invalid arguments."
NotReadable == "Response body is not readable"
StatusText == "Internal Server Error"
NetworkError == "fetch failed"
SchemaOfUndefined == "Cannot read properties of undefined (reading 'schema')"
ValidatorMessage == "bad value"
TwoValidatorMessages == "bad value\nbad value"

\* store.get(name) of a name the store does not hold
NoHost == [defined |-> FALSE, name |-> "undefined", hasSchema |-> FALSE,
           hasInput |-> FALSE, inputLen |-> 0, hasOutput |-> FALSE]

\* the hosts module A has defined: add has a schema with two input validators
\* and an output validator, echo and bare have no schema.  ghost is a spec of
\* module B.
StoreA ==
    [n \in {"add", "echo", "bare"} |->
        [defined |-> TRUE, name |-> n, hasSchema |-> n = "add",
         hasInput |-> n = "add", inputLen |-> IF n = "add" THEN 2 ELSE 0,
         hasOutput |-> n = "add"]]

StoreGet(name) == IF name \in DOMAIN StoreA THEN StoreA[name] ELSE NoHost

\* JavaScript values that reach factory.info: a request object or a string
ObjectValue(name) == [type |-> "object", name |-> name]
StringValue(text) == [type |-> "string", name |-> text]

\* value.name: the name of a request object, undefined for a string
NameProperty(value) == IF value.type = "object" THEN value.name ELSE "undefined"

\* factory.get(name)
FactoryGet(name) == StoreGet(name)

\* factory.info(req): store.get(req.name)
FactoryInfo(req) == StoreGet(NameProperty(req))

\* a validator (the external schema.safeParse): it accepts the value "good"
SafeParse(value) ==
    [success |-> value = "good", data |-> value, error |-> ValidatorMessage]

\* the messages of n failed validators joined with newlines
JoinMessages(n) ==
    IF n = 0 THEN "" ELSE IF n = 1 THEN ValidatorMessage ELSE TwoValidatorMessages

\* parseInput(args, spec.schema?.input)
ParseInput(args, spec) ==
    IF spec.hasInput /\ Len(args) # spec.inputLen
    THEN [data |-> <<>>, success |-> FALSE, error |-> InvalidArguments]
    ELSE LET failed == {i \in 1..Len(args) :
                           spec.hasInput /\ ~SafeParse(args[i]).success}
         IN [data |-> args, success |-> failed = {},
             error |-> JoinMessages(Cardinality(failed))]

\* parseOutput(result, spec.schema?.output)
ParseOutput(result, spec) ==
    IF spec.hasOutput THEN SafeParse(result)
    ELSE [success |-> TRUE, data |-> result, error |-> ""]

\* the payloads of the Calls of a batch
Payloads ==
    { [name |-> "add",   args |-> <<"good", "good">>],
      [name |-> "add",   args |-> <<"good">>],
      [name |-> "add",   args |-> <<"good", "bad">>],
      [name |-> "echo",  args |-> <<"good">>],
      [name |-> "ghost", args |-> <<>>] }

ModuleOfName(name) == IF name = "ghost" THEN "B" ELSE "A"

\* a map that stops at the first Call whose input does not parse
SendMapStop(cs, i, reqs) ==
    IF i > Len(cs) THEN [calls |-> cs, requests |-> reqs, threw |-> FALSE]
    ELSE LET spec == FactoryGet(payloads[i].name)
             args == ParseInput(payloads[i].args, spec)
         IN IF ~spec.defined
            THEN [calls |-> cs, requests |-> reqs, threw |-> TRUE]
            ELSE [calls |-> [cs EXCEPT ![i] = RejectBy(cs[i], "send", args.error)],
                  requests |-> reqs, threw |-> FALSE]

\* calls.map(...) of send, from call i on: a Call whose input does not parse
\* is rejected and leaves no request; a Call whose name the factory does not
\* hold makes spec.schema throw, which ends the map
RECURSIVE SendMap(_, _, _)
SendMap(cs, i, reqs) ==
    IF i > Len(cs) THEN [calls |-> cs, requests |-> reqs, threw |-> FALSE]
    ELSE LET spec == FactoryGet(payloads[i].name)
             args == ParseInput(payloads[i].args, spec)
         IN IF ~spec.defined
            THEN [calls |-> cs, requests |-> reqs, threw |-> TRUE]
            ELSE IF ~args.success
            THEN SendMap([cs EXCEPT ![i] = RejectBy(cs[i], "send", args.error)],
                         i + 1, reqs)
            ELSE SendMap(cs, i + 1,
                         Append(reqs, [id |-> i, name |-> payloads[i].name,
                                           args |-> args.data]))

\* a line of the response stream: text JSON.parse rejects, or an object
GarbledLine ==
    [json |-> FALSE, id |-> 0, name |-> "", hasError |-> FALSE, error |-> "",
     result |-> ""]

ErrorLine(id, name, message) ==
    [json |-> TRUE, id |-> id, name |-> name, hasError |-> TRUE,
     error |-> message, result |-> ""]

ResultLine(id, name, result) ==
    [json |-> TRUE, id |-> id, name |-> name, hasError |-> FALSE, error |-> "",
     result |-> result]

\* the name a server puts in the Response of Call id (0: an id of no Call)
NameOfId(id) == IF id \in DOMAIN payloads THEN payloads[id].name ELSE "echo"

Lines ==
    {GarbledLine}
    \cup {ErrorLine(id, NameOfId(id), m) :
             id \in 0..Len(calls), m \in {"", RemoteError}}
    \cup {ResultLine(id, NameOfId(id), r) :
             id \in 0..Len(calls), r \in {"good", "bad"}}

\* if (result.error): a missing or empty error is falsy
Truthy(line) == line.hasError /\ line.error # ""

\* a loop body that falls back on the first Call of the batch when no Call
\* has the id of the line
ProcessLineFallback(cs, line) ==
    LET id == IF line.id \in DOMAIN cs THEN line.id ELSE 1
    IN IF ~line.json \/ cs = <<>> THEN cs
       ELSE IF Truthy(line)
       THEN [cs EXCEPT ![id] = RejectBy(cs[id], "transport", line.error)]
       ELSE cs

\* the body of the for loop of send for one line
ProcessLine(cs, line) ==
    IF ~line.json THEN cs
    ELSE IF line.id \notin DOMAIN cs THEN cs
    ELSE IF Truthy(line)
    THEN [cs EXCEPT ![line.id] = RejectBy(cs[line.id], "transport", line.error)]
    ELSE LET spec == FactoryInfo(StringValue(line.name))
             output == ParseOutput(line.result, spec)
         IN IF ~spec.defined THEN cs   \* spec.schema throws, the catch skips
            ELSE IF output.success
            THEN [cs EXCEPT ![line.id] =
                     ResolveBy(cs[line.id], "transport", output.data)]
            ELSE [cs EXCEPT ![line.id] =
                     RejectBy(cs[line.id], "transport", output.error)]

RECURSIVE ProcessLines(_, _)
ProcessLines(cs, lines) ==
    IF lines = <<>> THEN cs
    ELSE ProcessLines(ProcessLine(cs, Head(lines)), Tail(lines))

\* results.push(result) for the decoded lines of a chunk (their ids are kept)
RECURSIVE Decoded(_)
Decoded(lines) ==
    IF lines = <<>> THEN <<>>
    ELSE IF Head(lines).json THEN <<Head(lines).id>> \o Decoded(Tail(lines))
    ELSE Decoded(Tail(lines))

AllIds(cs) == [i \in 1..Len(cs) |-> i]

\* a batch is queued and its flush, with module A's submit, is pending: the
\* first Call is one of A's stubs, the others are whatever was queued in the
\* same window, stubs of module B included (the queue is shared)
SendInit ==
    /\ \E n \in 0..MaxBatch :
          /\ payloads \in {f \in [1..n -> Payloads] :
                               n = 0 \/ f[1].name # "ghost"}
          /\ calls = [i \in 1..n |-> NewCall(ModuleOfName(payloads[i].name), TRUE, FALSE)]
          /\ IRPC_QUEUE = [i \in 1..n |-> i]
    /\ timers = <<"A">>
    /\ BatchIdle
    /\ transport = [m \in Modules |-> IF m = "A" THEN "http" ELSE TransportOf[m]]
    /\ timeout = [m \in Modules |-> 0]
    /\ sends = <<>>
    /\ nSettles = 0
    /\ httpPc = "queued"
    /\ body = <<>>
    /\ results = <<>>
    /\ linesRead = 0
    /\ ServerIdle
    /\ FactoryIdle
    /\ RestIdle

\* the flush fires: A's submit invokes send, which runs to its first await
SendStart ==
    /\ httpPc = "queued"
    /\ LET r == SendMap(calls, 1, <<>>)
       IN /\ calls' = r.calls
          /\ body' = IF r.threw THEN <<>> ELSE r.requests
          /\ httpPc' = IF r.threw THEN "threw"
                       ELSE IF r.requests = <<>> THEN "returned"
                       ELSE "fetching"
    /\ IRPC_QUEUE' = <<>>
    /\ timers' = <<>>
    /\ UNCHANGED <<restVars, cycle, flushes, passes, transport, timeout, sends, nSettles,
                   payloads, results, linesRead, serverVars, factoryVars>>

\* the promise of send has rejected: the catch callback of submit runs
SubmitCatch ==
    /\ httpPc \in {"threw", "netfail"}
    /\ calls' = RejectAll(calls, AllIds(calls), "submit",
                          IF httpPc = "threw" THEN SchemaOfUndefined
                          ELSE NetworkError)
    /\ httpPc' = "failed"
    /\ UNCHANGED <<restVars, batchVars, transport, timeout, sends, nSettles,
                   payloads, body, results, linesRead, serverVars, factoryVars>>

\* a send that returns on a response that is not ok without rejecting
FetchSettlesSilent(outcome) ==
    /\ httpPc = "fetching"
    /\ calls' = IF outcome = "noBody"
                THEN RejectAll(calls, AllIds(calls), "response", NotReadable)
                ELSE calls
    /\ httpPc' = IF outcome = "ok" THEN "reading"
                 ELSE IF outcome = "rejects" THEN "netfail"
                 ELSE "returned"
    /\ UNCHANGED <<restVars, batchVars, transport, timeout, sends, nSettles,
                   payloads, body, results, linesRead, serverVars, factoryVars>>

\* fetch settles: a response with a readable body, a response that is not
\* ok, a response without a body, or a rejection
FetchSettles(outcome) ==
    /\ httpPc = "fetching"
    /\ calls' = IF outcome = "notOk"
                THEN RejectAll(calls, AllIds(calls), "response", StatusText)
                ELSE IF outcome = "noBody"
                THEN RejectAll(calls, AllIds(calls), "response", NotReadable)
                ELSE calls
    /\ httpPc' = IF outcome = "ok" THEN "reading"
                 ELSE IF outcome = "rejects" THEN "netfail"
                 ELSE "returned"
    /\ UNCHANGED <<restVars, batchVars, transport, timeout, sends, nSettles,
                   payloads, body, results, linesRead, serverVars, factoryVars>>

\* reader.read() yields a chunk: its lines are processed in order
ReadChunk(lines) ==
    /\ httpPc = "reading"
    /\ linesRead + Len(lines) <= MaxLines
    /\ linesRead' = linesRead + Len(lines)
    /\ results' = results \o Decoded(lines)
    /\ calls' = ProcessLines(calls, lines)
    /\ UNCHANGED <<restVars, batchVars, transport, timeout, sends, nSettles,
                   payloads, httpPc, body, serverVars, factoryVars>>

\* reader.read() reports done, or rejects
ReadEnds(fails) ==
    /\ httpPc = "reading"
    /\ httpPc' = IF fails THEN "netfail" ELSE "returned"
    /\ UNCHANGED <<restVars, batchVars, moduleVars, payloads, body, results, linesRead,
                   serverVars, factoryVars>>

SendNext ==
    \/ SendStart
    \/ SubmitCatch
    \/ \E o \in {"ok", "notOk", "noBody", "rejects"} : FetchSettles(o)
    \/ \E l \in Lines : ReadChunk(<<l>>)
    \/ \E l \in Lines : ReadChunk(<<GarbledLine, l>>)
    \/ \E f \in BOOLEAN : ReadEnds(f)

SpecSend == SendInit /\ [][SendNext]_vars

----------------------------------------------------------------------------
(* packages/irpc/src/module.ts: the factory of module A and its stubs *)

NotFound == "IRPC can not be found."
HandlerNotFound == "IRPC handler can not be found."
InvalidIRPC == "Invalid IRPC."
InvalidTransport == "Invalid transport."

\* the names given to define, and a name that is never defined
StubNames == {"multiply", "greet"}
UnknownName == "nope"

\* the functions given to construct as handlers, and what they return
Impls == {"product", "total"}
ArgLists == {<<3, 4>>, <<2, 5>>}
Apply(impl, args) ==
    IF impl = "product" THEN args[1] * args[2] ELSE args[1] + args[2]

\* the first argument of construct: 0 is a value that is no function, i in
\* DOMAIN hosts is the stub define returned for hosts[i], any other number
\* is a function this module's define did not return
StubValues == 0..(MaxHosts + 1)

\* the argument of use: null, undefined, an object without a send function,
\* and transports
TransportValues == {"null", "undefined", "noSend"} \cup Transports
HasSend(value) == value \in Transports

\* store.set(host.name, host)
StoreSet(st, name, i) ==
    [k \in DOMAIN st \cup {name} |-> IF k = name THEN i ELSE st[k]]

\* a construct that binds to the host of the same position in the store
\* when the registry does not know the function
ConstructOpLoose(hs, irpc, handler) ==
    IF irpc = 0 THEN [hosts |-> hs, thrown |-> InvalidIRPC]
    ELSE IF hs = <<>> THEN [hosts |-> hs, thrown |-> NotFound]
    ELSE IF irpc \notin DOMAIN hs
    THEN [hosts |-> [hs EXCEPT ![1].handler = handler], thrown |-> NotFound]
    ELSE [hosts |-> [hs EXCEPT ![irpc].handler = handler], thrown |-> ""]

\* factory.construct(irpc, handler): the hosts after it and what it throws
ConstructOp(hs, irpc, handler) ==
    IF irpc = 0 THEN [hosts |-> hs, thrown |-> InvalidIRPC]
    ELSE IF irpc \notin DOMAIN hs THEN [hosts |-> hs, thrown |-> NotFound]
    ELSE [hosts |-> [hs EXCEPT ![irpc].handler = handler], thrown |-> ""]

\* a use that assigns before it checks
UseOpAssignFirst(tr, value) ==
    IF ~HasSend(value) THEN [transport |-> NoTransport, thrown |-> InvalidTransport]
    ELSE [transport |-> value, thrown |-> ""]

\* factory.use(transport): module.transport after it and what it throws
UseOp(tr, value) ==
    IF ~HasSend(value) THEN [transport |-> tr, thrown |-> InvalidTransport]
    ELSE [transport |-> value, thrown |-> ""]

\* a resolve that runs the handler of any host when the name is unknown
ResolveInAny(hs, st, req) ==
    IF req.name \notin DOMAIN st
    THEN [threw |-> TRUE, message |-> NotFound,
          invoked |-> IF hs # <<>> THEN hs[1].handler ELSE "none", result |-> 0]
    ELSE IF hs[st[req.name]].handler = "none"
    THEN [threw |-> TRUE, message |-> HandlerNotFound, invoked |-> "none",
          result |-> 0]
    ELSE [threw |-> FALSE, message |-> "",
          invoked |-> hs[st[req.name]].handler,
          result |-> Apply(hs[st[req.name]].handler, req.args)]

\* factory.resolve(req) over the hosts hs and the store st
ResolveIn(hs, st, req) ==
    IF req.name \notin DOMAIN st
    THEN [threw |-> TRUE, message |-> NotFound, invoked |-> "none",
          result |-> 0]
    ELSE IF hs[st[req.name]].handler = "none"
    THEN [threw |-> TRUE, message |-> HandlerNotFound, invoked |-> "none",
          result |-> 0]
    ELSE [threw |-> FALSE, message |-> "",
          invoked |-> hs[st[req.name]].handler,
          result |-> Apply(hs[st[req.name]].handler, req.args)]

\* createModule(): no host, no transport, the default timeout
FactoryInit ==
    /\ IRPC_QUEUE = <<>>
    /\ timers = <<>>
    /\ BatchIdle
    /\ transport = [m \in Modules |-> NoTransport]
    /\ timeout = [m \in Modules |-> DEFAULT_TIMEOUT]
    /\ calls = <<>>
    /\ sends = <<>>
    /\ nSettles = 0
    /\ HttpIdle
    /\ ServerIdle
    /\ FactoryIdle
    /\ RestIdle

\* factory(spec): a host is stored under spec.name and its stub registered
Define(name) ==
    /\ Len(hosts) < MaxHosts
    /\ hosts' = Append(hosts, [name |-> name, handler |-> "none"])
    /\ store' = StoreSet(store, name, Len(hosts) + 1)
    /\ lastOp' = [NoOp EXCEPT !.op = "define", !.stub = Len(hosts) + 1,
                              !.name = name]
    /\ UNCHANGED <<restVars, batchVars, moduleVars, httpVars, serverVars>>

Construct(irpc, handler) ==
    /\ LET r == ConstructOp(hosts, irpc, handler)
       IN /\ hosts' = r.hosts
          /\ lastOp' = [NoOp EXCEPT !.op = "construct", !.stub = irpc,
                                    !.value = handler, !.thrown = r.thrown]
    /\ UNCHANGED <<restVars, batchVars, moduleVars, httpVars, serverVars, store>>

UseValue(value) ==
    /\ LET r == UseOp(transport["A"], value)
       IN /\ transport' = [transport EXCEPT !["A"] = r.transport]
          /\ lastOp' = [NoOp EXCEPT !.op = "use", !.value = value,
                                    !.thrown = r.thrown]
    /\ UNCHANGED <<restVars, batchVars, timeout, calls, sends, nSettles, httpVars,
                   serverVars, hosts, store>>

\* a stub that calls the transport whenever one is installed
InvokeRemoteFirst(i, args) ==
    /\ i \in DOMAIN hosts
    /\ IF hosts[i].handler # "none" /\ transport["A"] = NoTransport
       THEN /\ lastOp' = [NoOp EXCEPT !.op = "invoke", !.stub = i,
                             !.name = hosts[i].name, !.args = args,
                             !.invoked = hosts[i].handler,
                             !.result = Apply(hosts[i].handler, args)]
            /\ UNCHANGED <<batchVars, moduleVars>>
       ELSE /\ Len(calls) < MaxInvocations
            /\ RemoteCallStep("A")
            /\ lastOp' = [NoOp EXCEPT !.op = "invoke", !.stub = i,
                             !.name = hosts[i].name, !.args = args,
                             !.value = "remote"]
            /\ UNCHANGED <<cycle, flushes, passes, transport, timeout, sends,
                           nSettles>>
    /\ UNCHANGED <<restVars, httpVars, serverVars, hosts, store>>

\* the stub define returned for hosts[i] is invoked with args
Invoke(i, args) ==
    /\ i \in DOMAIN hosts
    /\ IF hosts[i].handler # "none"
       THEN /\ lastOp' = [NoOp EXCEPT !.op = "invoke", !.stub = i,
                             !.name = hosts[i].name, !.args = args,
                             !.invoked = hosts[i].handler,
                             !.result = Apply(hosts[i].handler, args)]
            /\ UNCHANGED <<batchVars, moduleVars>>
       ELSE /\ Len(calls) < MaxInvocations
            /\ RemoteCallStep("A")
            /\ lastOp' = [NoOp EXCEPT !.op = "invoke", !.stub = i,
                             !.name = hosts[i].name, !.args = args,
                             !.value = "remote"]
            /\ UNCHANGED <<cycle, flushes, passes, transport, timeout, sends,
                           nSettles>>
    /\ UNCHANGED <<restVars, httpVars, serverVars, hosts, store>>

\* factory.resolve({ name, args })
Resolve(name, args) ==
    /\ LET r == ResolveIn(hosts, store, [name |-> name, args |-> args])
       IN lastOp' = [NoOp EXCEPT !.op = "resolve", !.name = name,
                                 !.args = args, !.thrown = r.message,
                                 !.invoked = r.invoked, !.result = r.result]
    /\ UNCHANGED <<restVars, batchVars, moduleVars, httpVars, serverVars, hosts, store>>

FactoryNext ==
    \/ \E n \in StubNames : Define(n)
    \/ \E f \in StubValues, h \in Impls : Construct(f, h)
    \/ \E v \in TransportValues : UseValue(v)
    \/ \E i \in 1..MaxHosts, a \in ArgLists : Invoke(i, a)
    \/ \E n \in StubNames \cup {UnknownName}, a \in ArgLists : Resolve(n, a)

SpecFactory == FactoryInit /\ [][FactoryNext]_vars

----------------------------------------------------------------------------
(* packages/http/src/index.ts: HTTPTransport.respond, serving module A *)

UnknownError == "Unknown error."
HandlerError == "handler failed"

\* host.handler: construct() has bound a handler to add and to echo, not to bare
HasHandler(name) == name \in {"add", "echo"}

\* factory.resolve(req) up to its return: it throws when the store has no
\* host of that name or the host has no handler, else it invokes the handler
FactoryResolve(req) ==
    LET host == StoreGet(req.name)
    IN IF ~host.defined THEN [threw |-> TRUE, message |-> NotFound]
       ELSE IF ~HasHandler(req.name)
       THEN [threw |-> TRUE, message |-> HandlerNotFound]
       ELSE [threw |-> FALSE, message |-> ""]

\* the name and arguments of the Requests of an inbound batch
RequestKinds ==
    { [name |-> "add",  args |-> <<"good", "good">>],
      [name |-> "add",  args |-> <<"good">>],
      [name |-> "add",  args |-> <<"good", "bad">>],
      [name |-> "echo", args |-> <<"good">>],
      [name |-> "bare", args |-> <<>>],
      [name |-> "nope", args |-> <<>>] }

\* the kinds of middleware: an async function that leaves the context alone,
\* one that calls setContext(UserKey, UserValue), and a plain function that
\* throws; the promise of the first two settles later
MiddlewareKinds == {"async", "setContext", "throws"}

UserKey == "userId"
UserValue == "u1"
Undefined == "undefined"

\* the store the provider reports when no withContext call is running
NoStore == [active |-> FALSE, map |-> <<>>]

\* createContext(entries): a fresh Map
CreateContext(entries) == entries

\* the entries respond seeds the Context with: ['req', src] and
\* ['headers', src.headers]
Seed == [k \in {"req", "headers"} |-> IF k = "req" THEN "src" ELSE "src.headers"]

\* map.set(key, value)
MapSet(map, key, value) ==
    [k \in DOMAIN map \cup {key} |-> IF k = key THEN value ELSE map[k]]

\* setContext(key, value): writes the Map the provider reports as current,
\* and does nothing when there is none
SetContext(current, key, value) ==
    IF current.active THEN [current EXCEPT !.map = MapSet(@, key, value)]
    ELSE current

\* getContext(key): reads the Map the provider reports as current
GetContext(current, key) ==
    IF current.active /\ key \in DOMAIN current.map THEN current.map[key]
    ELSE Undefined

\* withContext(ctx, fn): ctx is the current store while fn and what it
\* starts run
WithContext(map) == [active |-> TRUE, map |-> map]

\* the current store while respond invokes the middleware: the call is
\* made before withContext, so no Context is current
MiddlewareStore(map) == NoStore

\* middleware(src, ctx) up to its return: the Context of the batch after it
MiddlewareCall(kind, map) ==
    LET current == SetContext(MiddlewareStore(map), UserKey, UserValue)
    IN IF kind = "setContext" /\ current.active THEN current.map ELSE map

\* this.#middleware.map(...) from middleware i on: each is invoked in turn,
\* and one that throws ends the map
RECURSIVE MiddlewareMap(_, _, _)
MiddlewareMap(st, map, i) ==
    IF i > Len(middlewares) THEN [state |-> st, map |-> map, threw |-> FALSE]
    ELSE IF middlewares[i] = "throws"
    THEN [state |-> [st EXCEPT ![i] = "threw"], map |-> map, threw |-> TRUE]
    ELSE MiddlewareMap([st EXCEPT ![i] = "pending"],
                       MiddlewareCall(middlewares[i], map), i + 1)

\* the stream and the closure of start() as one value
Controller ==
    [stream |-> stream, enqueued |-> enqueued, pending |-> pending,
     closes |-> closes, reqState |-> reqState, ctx |-> ctx, seen |-> seen,
     threw |-> FALSE]

\* controller.enqueue(chunk): it throws unless the stream is readable
Enqueue(s, chunk) ==
    IF s.stream = "open" THEN [s EXCEPT !.enqueued = Append(@, chunk)]
    ELSE [s EXCEPT !.threw = TRUE]

\* a finalize that closes the stream whatever is still pending
FinalizeEager(s, id) ==
    [s EXCEPT !.pending = @ \ {id}, !.stream = "closed", !.closes = @ + 1,
              !.ctx = <<>>]

\* a finalize that discards the Context with every Request it removes
FinalizeClearEach(s, id) ==
    IF s.pending \ {id} = {}
    THEN [s EXCEPT !.pending = @ \ {id}, !.stream = "closed", !.closes = @ + 1,
                   !.ctx = <<>>]
    ELSE [s EXCEPT !.pending = @ \ {id}, !.ctx = <<>>]

\* finalize(req): requests.delete(req); when the Set is empty,
\* controller.close() and ctx.clear()
Finalize(s, id) ==
    IF s.pending \ {id} = {}
    THEN [s EXCEPT !.pending = @ \ {id}, !.stream = "closed", !.closes = @ + 1,
                   !.ctx = <<>>]
    ELSE [s EXCEPT !.pending = @ \ {id}]

\* controller.enqueue(JSON.stringify(...)); finalize(req)
Reply(s, i, chunk) ==
    LET e == Enqueue(s, chunk)
    IN IF e.threw THEN e
       ELSE Finalize([e EXCEPT !.reqState[i] = "answered"], requests[i].id)

\* the callback of requests.forEach for Request i, run inside withContext;
\* a handler that is invoked reads getContext(UserKey)
StartOne(s, i) ==
    LET req == requests[i]
        spec == FactoryInfo(ObjectValue(req.name))
        args == ParseInput(req.args, spec)
        resolved == FactoryResolve(req)
    IN IF ~spec.defined
       THEN Reply(s, i, ErrorLine(req.id, req.name, NotFound))
       ELSE IF spec.hasInput /\ Len(req.args) # spec.inputLen
       THEN Reply(s, i, ErrorLine(req.id, req.name, InvalidArguments))
       ELSE IF ~args.success
       THEN Reply(s, i, ErrorLine(req.id, req.name, args.error))
       ELSE IF resolved.threw
       THEN [s EXCEPT !.threw = TRUE, !.reqState[i] = "threw"]
       ELSE [s EXCEPT !.reqState[i] = "running",
                      !.seen[i] = GetContext(WithContext(s.ctx), UserKey)]

\* requests.forEach(...) of start() from Request i on: an exception ends it
RECURSIVE StartLoop(_, _)
StartLoop(s, i) ==
    IF i > Len(requests) THEN s
    ELSE LET r == StartOne(s, i)
         IN IF r.threw THEN r ELSE StartLoop(r, i + 1)

\* what a handler's promise can reject with: an Error with a message, an
\* Error whose message is the empty string (new Error()), and a value
\* without a message (undefined, or an object that has none)
Rejections == {"rejects", "rejectsEmpty", "rejectsBare"}

\* error?.message ?? 'Unknown error.'
CaughtMessage(rejection) ==
    IF rejection = "rejects" THEN HandlerError
    ELSE IF rejection = "rejectsEmpty" THEN ""
    ELSE UnknownError

\* the chunk the then or the catch callback of factory.resolve(req) enqueues
HandlerChunk(i, outcome) ==
    LET req == requests[i]
        spec == FactoryInfo(ObjectValue(req.name))
        output == ParseOutput(outcome, spec)
    IN IF outcome \in {"good", "bad"}
       THEN IF output.success THEN ResultLine(req.id, req.name, output.data)
            ELSE ErrorLine(req.id, req.name, output.error)
       ELSE ErrorLine(req.id, req.name, CaughtMessage(outcome))

\* a request with its body decoded has reached respond
RespondInit ==
    /\ IRPC_QUEUE = <<>>
    /\ timers = <<>>
    /\ BatchIdle
    /\ ModuleIdle
    /\ HttpIdle
    /\ FactoryIdle
    /\ RestIdle
    /\ \E n \in 0..MaxRequests :
          \E f \in [1..n -> RequestKinds] :
             requests = [i \in 1..n |-> [id |-> i, name |-> f[i].name,
                                         args |-> f[i].args]]
    /\ \E k \in 0..MaxMiddleware : middlewares \in [1..k -> MiddlewareKinds]
    /\ mwState = [i \in 1..Len(middlewares) |-> "idle"]
    /\ respondPc = "received"
    /\ pending = {}
    /\ reqState = [i \in 1..Len(requests) |-> "idle"]
    /\ stream = "none"
    /\ startThrew = FALSE
    /\ enqueued = <<>>
    /\ closes = 0
    /\ ctx = <<>>
    /\ seen = [i \in 1..Len(requests) |-> "unset"]

\* what new Response(JSON.stringify([]), { status: 204 }) does: a body with
\* a null-body status is a TypeError in a runtime that follows the Fetch
\* standard, which makes respond reject; a lenient runtime builds the Response
EmptyOutcomes == {"noContent", "rejected"}

\* respond up to its await of Promise.allSettled: an empty batch is answered
\* with 204, else every middleware is invoked
Respond ==
    /\ respondPc = "received"
    /\ LET created == CreateContext(Seed)
           m == MiddlewareMap(mwState, created, 1)
       IN IF requests = <<>>
          THEN /\ respondPc' \in EmptyOutcomes
               /\ UNCHANGED <<mwState, ctx>>
          ELSE /\ mwState' = m.state
               /\ ctx' = m.map
               /\ respondPc' = IF m.threw THEN "rejected" ELSE "middleware"
    /\ pending' = {requests[i].id : i \in 1..Len(requests)}
    /\ UNCHANGED <<restVars, factoryVars, batchVars, moduleVars, httpVars, requests, middlewares,
                   reqState, stream, startThrew, enqueued, closes, seen>>

\* the promise a middleware returned fulfils or rejects
MiddlewareSettles(i, ok) ==
    /\ respondPc = "middleware"
    /\ i \in DOMAIN mwState
    /\ mwState[i] = "pending"
    /\ mwState' = [mwState EXCEPT ![i] = IF ok THEN "fulfilled" ELSE "rejected"]
    /\ UNCHANGED <<restVars, factoryVars, batchVars, moduleVars, httpVars, requests, middlewares,
                   respondPc, pending, reqState, stream, startThrew, enqueued,
                   closes, ctx, seen>>

\* Promise.allSettled has settled: the stream is constructed, start() runs
\* its forEach, and respond returns the Response
StartStream ==
    /\ respondPc = "middleware"
    /\ \A i \in DOMAIN mwState : mwState[i] \in {"fulfilled", "rejected"}
    /\ LET r == StartLoop([Controller EXCEPT !.stream = "open"], 1)
       IN /\ stream' = r.stream
          /\ enqueued' = r.enqueued
          /\ pending' = r.pending
          /\ closes' = r.closes
          /\ startThrew' = r.threw
          /\ ctx' = r.ctx
          /\ seen' = r.seen
          /\ reqState' = [i \in DOMAIN reqState |->
                             IF r.reqState[i] = "idle" THEN "skipped"
                             ELSE r.reqState[i]]
    /\ respondPc' = "streaming"
    /\ UNCHANGED <<restVars, factoryVars, batchVars, moduleVars, httpVars, requests, middlewares,
                   mwState>>

\* the rejection of the promise of start() is handled: the stream is errored
StreamErrors ==
    /\ respondPc = "streaming"
    /\ startThrew
    /\ stream = "open"
    /\ stream' = "errored"
    /\ UNCHANGED <<restVars, factoryVars, batchVars, moduleVars, httpVars, requests, middlewares,
                   mwState, respondPc, pending, reqState, startThrew, enqueued,
                   closes, ctx, seen>>

\* the promise of a handler settles: the then or the catch callback enqueues
\* the Response and finalizes; on a stream that is no longer readable
\* enqueue throws in both callbacks and finalize is not reached
HandlerSettles(i, outcome) ==
    /\ respondPc = "streaming"
    /\ i \in DOMAIN reqState
    /\ reqState[i] = "running"
    /\ LET r == Reply(Controller, i, HandlerChunk(i, outcome))
       IN /\ stream' = r.stream
          /\ enqueued' = r.enqueued
          /\ pending' = r.pending
          /\ closes' = r.closes
          /\ ctx' = r.ctx
          /\ reqState' = IF r.threw THEN [reqState EXCEPT ![i] = "lost"]
                         ELSE IF outcome \in Rejections
                         THEN [r.reqState EXCEPT ![i] = "caught"]
                         ELSE r.reqState
    /\ UNCHANGED <<restVars, factoryVars, batchVars, moduleVars, httpVars, requests, middlewares,
                   mwState, respondPc, startThrew, seen>>

RespondNext ==
    \/ Respond
    \/ \E i \in 1..MaxMiddleware, ok \in BOOLEAN : MiddlewareSettles(i, ok)
    \/ StartStream
    \/ StreamErrors
    \/ \E i \in 1..MaxRequests,
          o \in {"good", "bad"} \cup Rejections : HandlerSettles(i, o)

SpecRespond == RespondInit /\ [][RespondNext]_vars

----------------------------------------------------------------------------
(* HTTPTransport.send and HTTPTransport.respond joined: the body send posts *)
(* is the batch respond decodes, and the chunks respond enqueues are what   *)
(* the reader of send receives.  Client and server hold the same module A.  *)

\* a batch of A's stubs is queued and the flush with A's submit is pending
WireInit ==
    /\ \E n \in 1..MaxWire :
          /\ payloads \in [1..n -> {p \in Payloads : ModuleOfName(p.name) = "A"}]
          /\ calls = [i \in 1..n |-> NewCall("A", TRUE, FALSE)]
          /\ IRPC_QUEUE = [i \in 1..n |-> i]
    /\ timers = <<"A">>
    /\ BatchIdle
    /\ transport = [m \in Modules |-> IF m = "A" THEN "http" ELSE TransportOf[m]]
    /\ timeout = [m \in Modules |-> 0]
    /\ sends = <<>>
    /\ nSettles = 0
    /\ httpPc = "queued"
    /\ body = <<>>
    /\ results = <<>>
    /\ linesRead = 0
    /\ ServerIdle
    /\ FactoryIdle
    /\ RestIdle

\* the POST of send reaches the endpoint: serve().handle(req) calls respond,
\* and src.json() yields the body
Arrive ==
    /\ httpPc = "fetching"
    /\ respondPc = "unused"
    /\ requests' = body
    /\ reqState' = [i \in 1..Len(body) |-> "idle"]
    /\ seen' = [i \in 1..Len(body) |-> "unset"]
    /\ respondPc' = "received"
    /\ UNCHANGED <<restVars, factoryVars, batchVars, moduleVars, httpVars, middlewares, mwState,
                   pending, stream, startThrew, enqueued, closes, ctx>>

\* respond has returned its Response: fetch fulfils with it
ResponseArrives ==
    /\ respondPc = "streaming"
    /\ FetchSettles("ok")

\* reader.read() yields the text of the next k chunks respond enqueued.
\* respond puts no newline after a chunk, so chunk.split('\n') gives one
\* line: a JSON document for one chunk, and for several chunks their
\* concatenation, which JSON.parse rejects
StreamRead(k) ==
    /\ httpPc = "reading"
    /\ k >= 1
    /\ linesRead + k <= Len(enqueued)
    /\ LET lines == IF k = 1 THEN <<enqueued[linesRead + 1]>>
                    ELSE <<GarbledLine>>
       IN /\ results' = results \o Decoded(lines)
          /\ calls' = ProcessLines(calls, lines)
    /\ linesRead' = linesRead + k
    /\ UNCHANGED <<restVars, batchVars, transport, timeout, sends, nSettles,
                   payloads, httpPc, body, serverVars, factoryVars>>

\* the text of the next chunk respond enqueued reaches the reader in two
\* pieces: neither piece of a JSON document is one, so JSON.parse rejects
\* the line of both reads
StreamReadSplit ==
    /\ httpPc = "reading"
    /\ linesRead + 1 <= Len(enqueued)
    /\ LET lines == <<GarbledLine, GarbledLine>>
       IN /\ results' = results \o Decoded(lines)
          /\ calls' = ProcessLines(calls, lines)
    /\ linesRead' = linesRead + 1
    /\ UNCHANGED <<restVars, batchVars, transport, timeout, sends, nSettles,
                   payloads, httpPc, body, serverVars, factoryVars>>

\* the stream is closed and drained: reader.read() reports done
StreamDone ==
    /\ stream = "closed"
    /\ linesRead = Len(enqueued)
    /\ ReadEnds(FALSE)

WireNext ==
    \/ SendStart
    \/ Arrive
    \/ Respond
    \/ StartStream
    \/ \E i \in 1..MaxWire, o \in {"good", "bad"} \cup Rejections :
          HandlerSettles(i, o)
    \/ ResponseArrives
    \/ \E k \in 1..MaxWire : StreamRead(k)
    \/ StreamReadSplit
    \/ StreamDone

SpecWire == WireInit /\ [][WireNext]_vars

----------------------------------------------------------------------------
(* packages/irpc/src/utils.ts: shortId *)

Radix == 36
PadLength == 3

\* n.toString(36): the digits of n, most significant first
RECURSIVE ToString36(_)
ToString36(n) ==
    IF n < Radix THEN <<n>> ELSE Append(ToString36(n \div Radix), n % Radix)

\* digits.padStart(3, '0')
RECURSIVE PadStart(_)
PadStart(digits) ==
    IF Len(digits) >= PadLength THEN digits ELSE PadStart(<<0>> \o digits)

\* Math.random().toString(36).substring(2, 6): at most four digits, fewer
\* when the expansion is short (0.5 gives 'i', 1/64 gives '0k9')
RandomParts == {<<18>>, <<0, 20, 9>>, <<10, 11, 12, 13>>}

\* a plausible slip: the sequence restarts at every call
NextSequenceReset(timestamp, last, seq) == 0

\* lines 20-24: the sequence shortId uses for a clock reading
NextSequence(timestamp, last, seq) ==
    IF timestamp = last THEN seq + 1 ELSE 0

\* line 31: `${timestampPart}${sequencePart}${randomPart}`
IdString(timestamp, seq, random) ==
    ToString36(timestamp) \o PadStart(ToString36(seq)) \o random

IdInit ==
    /\ now \in 0..MaxClock
    /\ lastTimestamp = 0
    /\ sequence = 0
    /\ issued = <<>>
    /\ IRPC_QUEUE = <<>>
    /\ timers = <<>>
    /\ BatchIdle
    /\ ModuleIdle
    /\ HttpIdle
    /\ ServerIdle
    /\ FactoryIdle
    /\ ContextIdle
    /\ TimedIdle
    /\ ServeIdle

\* the clock reads another value: time has passed, or the system clock was
\* set (Date.now() is wall-clock time and may be set back)
ClockReads(t) ==
    /\ t # now
    /\ now' = t
    /\ UNCHANGED <<serveVars, lastTimestamp, sequence, issued, contextVars, timedVars,
                   batchVars, moduleVars, httpVars, serverVars, factoryVars>>

\* shortId(), with random as the outcome of Math.random()
ShortId(random) ==
    /\ Len(issued) < MaxIds
    /\ LET timestamp == now
           seq == NextSequence(timestamp, lastTimestamp, sequence)
       IN /\ sequence' = seq
          /\ lastTimestamp' = timestamp
          /\ issued' = Append(issued,
                 [timestamp |-> timestamp, sequence |-> seq, random |-> random,
                  sequencePart |-> PadStart(ToString36(seq)),
                  id |-> IdString(timestamp, seq, random)])
    /\ UNCHANGED <<serveVars, now, contextVars, timedVars,
                   batchVars, moduleVars, httpVars, serverVars, factoryVars>>

IdNext ==
    \/ \E t \in 0..MaxClock : ClockReads(t)
    \/ \E r \in RandomParts : ShortId(r)

SpecId == IdInit /\ [][IdNext]_vars

----------------------------------------------------------------------------
(* packages/irpc/src/context.ts: the provider and the ambient Context *)

Providers == {"mock", "local"}
Keys == {UserKey, "other"}
Values == {UserValue, "u2"}
Fallback == "fallback"
FnResult == "test-result"

\* a plausible slip: the store is read without asking for a provider
ProviderStoreAlways(p, current) == current

\* provider?.getStore(): nothing without a provider
ProviderStore(p, current) == IF p = Undefined THEN NoStore ELSE current

\* getContext(key, fallback)
GetContextOr(p, current, key, fallback) ==
    LET value == GetContext(ProviderStore(p, current), key)
    IN IF value = Undefined THEN fallback ELSE value

\* getStore() of a provider outside run: the Map of the mock provider of the
\* tests, nothing for a continuation-local provider
StoreOutsideRun(p) == IF p = "mock" THEN WithContext(<<>>) ELSE NoStore

ContextInit ==
    /\ ContextIdle
    /\ UtilIdle
    /\ TimedIdle
    /\ ServeIdle
    /\ IRPC_QUEUE = <<>>
    /\ timers = <<>>
    /\ BatchIdle
    /\ ModuleIdle
    /\ HttpIdle
    /\ ServerIdle
    /\ FactoryIdle

\* setContextProvider(p), p a provider or undefined
SetContextProvider(p) ==
    /\ p # provider
    /\ provider' = p
    /\ ambient' = IF p = Undefined THEN ambient ELSE StoreOutsideRun(p)
    /\ ctxOp' = [NoCtxOp EXCEPT !.op = "setContextProvider"]
    /\ UNCHANGED <<serveVars, utilVars, timedVars, batchVars, moduleVars, httpVars,
                   serverVars, factoryVars>>

\* setContext(key, value)
SetCtx(key, value) ==
    /\ ambient' = IF provider = Undefined THEN ambient
                  ELSE SetContext(ambient, key, value)
    /\ ctxOp' = [NoCtxOp EXCEPT !.op = "setContext", !.key = key,
                    !.value = value]
    /\ UNCHANGED <<serveVars, provider, utilVars, timedVars, batchVars, moduleVars,
                   httpVars, serverVars, factoryVars>>

\* getContext(key, fallback)
GetCtx(key, fallback) ==
    /\ ctxOp' = [NoCtxOp EXCEPT !.op = "getContext", !.key = key,
                    !.fallback = fallback,
                    !.returned = GetContextOr(provider, ambient, key, fallback)]
    /\ UNCHANGED <<serveVars, provider, ambient, utilVars, timedVars, batchVars,
                   moduleVars, httpVars, serverVars, factoryVars>>

\* withContext(createContext([[key, value]]), fn): fn runs, with the Context
\* as the store when there is a provider to run it; the mock provider of the
\* tests keeps reporting the Context afterwards
WithCtx(key, value) ==
    /\ LET context == CreateContext(MapSet(<<>>, key, value))
       IN ambient' = IF provider = "mock" THEN WithContext(context) ELSE ambient
    /\ ctxOp' = [NoCtxOp EXCEPT !.op = "withContext", !.key = key,
                    !.ran = TRUE, !.returned = FnResult]
    /\ UNCHANGED <<serveVars, provider, utilVars, timedVars, batchVars, moduleVars,
                   httpVars, serverVars, factoryVars>>

ContextNext ==
    \/ \E p \in Providers \cup {Undefined} : SetContextProvider(p)
    \/ \E k \in Keys, v \in Values : SetCtx(k, v)
    \/ \E k \in Keys, f \in {Undefined, Fallback} : GetCtx(k, f)
    \/ \E k \in Keys, v \in Values : WithCtx(k, v)

SpecContext == ContextInit /\ [][ContextNext]_vars

----------------------------------------------------------------------------
(* batch.ts under a clock: batch(call, handler, delay) is called by tasks   *)
(* of caller code, and the callbacks of setTimeout are run by the           *)
(* scheduler, between tasks, once their delay has elapsed.                  *)

Delays == {0, 2}

\* a timer whose delay starts at the latest call passed to batch()
TimedOpLatest(q, ts, ds, call, handler, delay, t) ==
    [queue  |-> QueueAdd(q, call),
     timers |-> <<handler>>,
     due    |-> <<t + delay>>]

\* a timer that is given no delay
TimedOpNoDelay(q, ts, ds, call, handler, delay, t) ==
    [queue  |-> BatchOp(q, ts, call, handler).queue,
     timers |-> BatchOp(q, ts, call, handler).timers,
     due    |-> IF Len(q) = 0 THEN Append(ds, t) ELSE ds]

\* batch(call, handler, delay) at time t: the queue, the pending timers and
\* their deadlines after the call
TimedOp(q, ts, ds, call, handler, delay, t) ==
    [queue  |-> BatchOp(q, ts, call, handler).queue,
     timers |-> BatchOp(q, ts, call, handler).timers,
     due    |-> IF Len(q) = 0 THEN Append(ds, t + delay) ELSE ds]

TimedInit ==
    /\ IRPC_QUEUE = <<>>
    /\ timers = <<>>
    /\ BatchIdle
    /\ ModuleIdle
    /\ HttpIdle
    /\ ServerIdle
    /\ FactoryIdle
    /\ UtilIdle
    /\ ContextIdle
    /\ TimedIdle
    /\ ServeIdle

\* a millisecond passes
Tick ==
    /\ now < MaxTime
    /\ now' = now + 1
    /\ UNCHANGED <<serveVars, lastTimestamp, sequence, issued, contextVars, timedVars,
                   batchVars, moduleVars, httpVars, serverVars, factoryVars>>

\* batch(call, handler, delay) with a new call, invoked by the running task
BatchAt(handler, delay) ==
    /\ passes < MaxTimed
    /\ LET call == passes + 1
           r == TimedOp(IRPC_QUEUE, timers, due, call, handler, delay, now)
       IN /\ IRPC_QUEUE' = r.queue
          /\ timers' = r.timers
          /\ due' = r.due
          /\ cycle' = IF WindowOpen(r.timers) THEN Append(cycle, call) ELSE cycle
          /\ arrivals' = IF WindowOpen(r.timers)
                         THEN Append(arrivals, [call |-> call, handler |-> handler,
                                                delay |-> delay, at |-> now,
                                                turn |-> turns'])
                         ELSE arrivals
    /\ passes' = passes + 1
    /\ UNCHANGED <<serveVars, flushes, utilVars, contextVars,
                   moduleVars, httpVars, serverVars, factoryVars>>

\* the scheduler starts a task of caller code, which invokes batch()
TaskBatch(handler, delay) ==
    /\ ~inTurn
    /\ inTurn' = TRUE
    /\ turns' = turns + 1
    /\ BatchAt(handler, delay)

\* the running task invokes batch() again
TimedBatch(handler, delay) ==
    /\ inTurn
    /\ UNCHANGED <<inTurn, turns>>
    /\ BatchAt(handler, delay)

\* the task returns to the scheduler
TurnEnds ==
    /\ inTurn
    /\ inTurn' = FALSE
    /\ UNCHANGED <<serveVars, turns, due, arrivals, utilVars, contextVars,
                   batchVars, moduleVars, httpVars, serverVars, factoryVars>>

\* the scheduler runs the setTimeout callback of batch(), not before its
\* deadline: handler([...IRPC_QUEUE.values()]), and IRPC_QUEUE.clear() unless
\* the handler has thrown; the handler may pass a new call to batch(), as
\* submit does when send invokes a stub: the handler is the same, the delay 0
TimedFlush(throws, reenter) ==
    /\ ~inTurn
    /\ timers # <<>>
    /\ now >= Head(due)
    /\ reenter => passes < MaxTimed
    /\ LET during == IF reenter
                     THEN TimedOp(IRPC_QUEUE, Tail(timers), Tail(due),
                                  passes + 1, Head(timers), 0, now)
                     ELSE [queue |-> IRPC_QUEUE, timers |-> Tail(timers),
                           due |-> Tail(due)]
       IN /\ flushes' = Append(flushes,
                 [handler |-> Head(timers), calls |-> IRPC_QUEUE,
                  threw |-> throws, at |-> now, cycle |-> arrivals])
          /\ IRPC_QUEUE' = IF throws THEN during.queue ELSE <<>>
          /\ timers' = during.timers
          /\ due' = during.due
    /\ cycle' = <<>>
    /\ arrivals' = <<>>
    /\ passes' = IF reenter THEN passes + 1 ELSE passes
    /\ UNCHANGED <<serveVars, inTurn, turns, utilVars, contextVars,
                   moduleVars, httpVars, serverVars, factoryVars>>

TimedNext ==
    \/ Tick
    \/ \E h \in Handlers, d \in Delays : TaskBatch(h, d)
    \/ \E h \in Handlers, d \in Delays : TimedBatch(h, d)
    \/ TurnEnds
    \/ \E t \in BOOLEAN, r \in BOOLEAN : TimedFlush(t, r)

SpecTimed == TimedInit /\ [][TimedNext]_vars

----------------------------------------------------------------------------
(* HTTPTransport.respond invoked for two inbound requests whose work        *)
(* interleaves, with a context provider installed.  Every Request names a   *)
(* host with a handler and passes validation, and the transport has no      *)
(* middleware; a handler reads and writes the ambient Context after it has  *)
(* been invoked, and settles later.                                         *)

Inbound == {1, 2}

\* the inbound request and its headers, and the value a handler of each
\* inbound request writes under UserKey
SrcOf == <<"src1", "src2">>
HeadersOf == <<"headers1", "headers2">>
UserOf == <<"u1", "u2">>

\* createContext([['req', src], ['headers', src.headers]]) of respond(src)
SeedOf(b) == [k \in {"req", "headers"} |-> IF k = "req" THEN SrcOf[b]
                                           ELSE HeadersOf[b]]

\* a provider that reports the Context of the latest run to every caller
StoreOfLatest(p, b, last) == last

\* provider.getStore() in code started inside withContext(ctx, fn) of
\* respond b: a continuation-local provider reports the Context of that
\* run, the mock provider of the tests reports the Context of the latest
\* run (0: no Context)
StoreOf(p, b, last) == IF p = "local" THEN b ELSE last

\* the Context the provider reports, as the store getContext and setContext
\* work on
Reported(t) == IF t = 0 THEN NoStore ELSE WithContext(served[t].ctx)

\* respond has not been invoked for an inbound request
NotServed(n) ==
    [pc |-> "idle", size |-> n, ctx |-> <<>>, pending |-> {},
     handlers |-> [i \in 1..n |-> "idle"], closes |-> 0]

ServeInit ==
    /\ IRPC_QUEUE = <<>>
    /\ timers = <<>>
    /\ BatchIdle
    /\ ModuleIdle
    /\ HttpIdle
    /\ ServerIdle
    /\ FactoryIdle
    /\ UtilIdle
    /\ TimedIdle
    /\ provider \in Providers
    /\ ambient = NoStore
    /\ ctxOp = NoCtxOp
    /\ \E f \in [Inbound -> 1..MaxServed] : served = [b \in Inbound |-> NotServed(f[b])]
    /\ lastRun = 0
    /\ lastGet = NoGet

\* respond(src) up to its await of Promise.allSettled: the requests Set and
\* the Context of this invocation are made
ServeRespond(b) ==
    /\ served[b].pc = "idle"
    /\ served' = [served EXCEPT ![b].pc = "middleware",
                                ![b].ctx = CreateContext(SeedOf(b)),
                                ![b].pending = 1..served[b].size]
    /\ UNCHANGED <<lastRun, lastGet, utilVars, contextVars, timedVars,
                   batchVars, moduleVars, httpVars, serverVars, factoryVars>>

\* respond after the await: withContext(ctx, ...) runs the provider, the
\* stream is constructed and start() invokes the handler of every Request
ServeStart(b) ==
    /\ served[b].pc = "middleware"
    /\ served' = [served EXCEPT ![b].pc = "streaming",
                                ![b].handlers = [i \in DOMAIN @ |-> "running"]]
    /\ lastRun' = b
    /\ UNCHANGED <<lastGet, utilVars, contextVars, timedVars,
                   batchVars, moduleVars, httpVars, serverVars, factoryVars>>

\* a running handler of respond b calls setContext(UserKey, value)
HandlerSets(b, i) ==
    /\ i \in DOMAIN served[b].handlers
    /\ served[b].handlers[i] = "running"
    /\ LET t == StoreOf(provider, b, lastRun)
           written == SetContext(Reported(t), UserKey, UserOf[b])
           marked == [served EXCEPT ![b].handlers[i] = "wrote"]
       IN served' = IF t = 0 THEN marked
                    ELSE [marked EXCEPT ![t].ctx = written.map]
    /\ UNCHANGED <<lastRun, lastGet, utilVars, contextVars, timedVars,
                   batchVars, moduleVars, httpVars, serverVars, factoryVars>>

\* a handler of respond b that has not settled calls getContext(key)
HandlerGets(b, i, key) ==
    /\ i \in DOMAIN served[b].handlers
    /\ served[b].handlers[i] \in {"running", "wrote"}
    /\ lastGet' = [batch |-> b, key |-> key,
                   returned |-> GetContext(Reported(StoreOf(provider, b, lastRun)),
                                           key)]
    /\ UNCHANGED <<served, lastRun, utilVars, contextVars, timedVars,
                   batchVars, moduleVars, httpVars, serverVars, factoryVars>>

\* the promise of a handler of respond b settles: its Response is enqueued
\* and finalize(req) removes the Request from the Set of this invocation;
\* when that Set is empty the stream is closed and ctx.clear() is called
ServeSettles(b, i) ==
    /\ i \in DOMAIN served[b].handlers
    /\ served[b].handlers[i] \in {"running", "wrote"}
    /\ LET left == served[b].pending \ {i}
           done == [served EXCEPT ![b].handlers[i] = "settled",
                                  ![b].pending = left]
       IN served' = IF left = {}
                    THEN [done EXCEPT ![b].pc = "closed", ![b].ctx = <<>>,
                                      ![b].closes = @ + 1]
                    ELSE done
    /\ UNCHANGED <<lastRun, lastGet, utilVars, contextVars, timedVars,
                   batchVars, moduleVars, httpVars, serverVars, factoryVars>>

ServeNext ==
    \/ \E b \in Inbound : ServeRespond(b)
    \/ \E b \in Inbound : ServeStart(b)
    \/ \E b \in Inbound, i \in 1..MaxServed : HandlerSets(b, i)
    \/ \E b \in Inbound, i \in 1..MaxServed, k \in {"req", "headers", UserKey} :
          HandlerGets(b, i, k)
    \/ \E b \in Inbound, i \in 1..MaxServed : ServeSettles(b, i)

SpecServe == ServeInit /\ [][ServeNext]_vars

----------------------------------------------------------------------------
(* C2: every call passed to batch() while a flush is pending is handed to   *)
(* the handler by that flush, in one invocation, with no other call, in the *)
(* order of the batch() invocations (a call passed twice appears once, at   *)
(* its first position); and one window has one pending flush.               *)
C2_FlushDeliversCycle ==
    [][/\ Len(timers) <= 1
       /\ Len(flushes') > Len(flushes) =>
             /\ Len(flushes') = Len(flushes) + 1
             /\ Last(flushes').calls = Dedup(cycle)]_vars

C2_Witness ==
    /\ flushes # <<>>
    /\ Len(Last(flushes).calls) >= 2
    /\ Last(flushes).calls[1] > Last(flushes).calls[2]

----------------------------------------------------------------------------
(* C1: of all the resolve/reject invocations made on a Call only the first *)
(* has an effect: it sets resolved and invokes exactly one callback once;  *)
(* what the callbacks have observed is the outcome of that first           *)
(* invocation, however many invocations follow.                            *)
C1_OneShot ==
    \A c \in DOMAIN calls :
        LET k == calls[c]
        IN /\ k.nResolver + k.nRejector = (IF k.attempts > 0 THEN 1 ELSE 0)
           /\ k.resolved = (k.attempts > 0)
           /\ k.attempts > 0 =>
                 /\ k.observed = <<k.first.kind, k.first.value>>
                 /\ (k.nResolver = 1) = (k.first.kind = "resolved")

C1_Witness ==
    \E c \in DOMAIN calls :
        /\ calls[c].attempts >= 3
        /\ calls[c].first.kind = "resolved"

(* C3: for a remote call with a positive timeout the first of the timer and *)
(* the transport decides what the caller's promise holds: the timeout error *)
(* when the timer was first, the transport's outcome otherwise; and the     *)
(* timer fires on no Call that was settled before.                          *)
C3_TimeoutRace ==
    \A c \in DOMAIN calls :
        LET k == calls[c]
        IN (k.created /\ k.timer # "none") =>
              /\ k.first.by = "timer" => k.promise = <<"rejected", TimeoutError>>
              /\ k.first.by \in {"transport", "submit"} =>
                    k.promise = <<k.first.kind, k.first.value>>
              /\ k.timer = "fired" => k.first.by = "timer"

C3_Witness ==
    \E c, d \in DOMAIN calls :
        /\ calls[c].first.by = "timer"
        /\ calls[c].attempts >= 2
        /\ calls[d].first.by = "transport"
        /\ calls[d].first.kind = "resolved"
        /\ calls[d].timer = "cleared"

(* C4: when send has thrown, or the promise it returned has rejected, every *)
(* Call of that batch is settled, none is pending, and each Call that was   *)
(* not settled before holds the error of the send.                          *)
C4_BatchFailure ==
    \A s \in DOMAIN sends :
        sends[s].state \in {"threw", "rejected"} =>
            \A c \in Range(sends[s].calls) :
                /\ calls[c].resolved
                /\ calls[c].promise # <<"pending">>
                /\ calls[c].first.by = "submit" =>
                      calls[c].promise = <<"rejected", SendError>>

C4_Witness ==
    \E s \in DOMAIN sends :
        /\ sends[s].state = "rejected"
        /\ \E c, d \in Range(sends[s].calls) :
              /\ calls[c].first.by = "submit"
              /\ calls[d].first.by = "transport"

(* C5: every Call is dispatched by the submit of the module whose stub made *)
(* it, to the transport installed on that module.                           *)
C5_OwnSubmit ==
    \A s \in DOMAIN sends :
        \A c \in Range(sends[s].calls) :
            /\ sends[s].by = calls[c].module
            /\ sends[s].transport = transport[calls[c].module]

InputFails(c) ==
    /\ FactoryGet(payloads[c].name).defined
    /\ ~ParseInput(payloads[c].args, FactoryGet(payloads[c].name)).success

InputPasses(c) ==
    /\ FactoryGet(payloads[c].name).defined
    /\ ParseInput(payloads[c].args, FactoryGet(payloads[c].name)).success

BodyIds == {body[i].id : i \in 1..Len(body)}

(* C6: once send has started, a Call whose input fails validation has been  *)
(* rejected with its validation error and is absent from the request body,  *)
(* while every other Call of the batch whose input passes is in the body of *)
(* the request and has not been rejected by send's validation.              *)
C6_ValidationIndependence ==
    httpPc \notin {"unused", "queued"} =>
        \A c \in DOMAIN calls :
            InputFails(c) =>
                /\ calls[c].first.by = "send"
                /\ calls[c].promise = <<"rejected",
                      ParseInput(payloads[c].args,
                                 FactoryGet(payloads[c].name)).error>>
                /\ c \notin BodyIds
                /\ \A d \in DOMAIN calls \ {c} :
                      InputPasses(d) =>
                          /\ d \in BodyIds
                          /\ calls[d].first.by # "send"

(* C7: every decoded line whose id is the id of a Call of the batch has     *)
(* settled that Call: rejected with the line's error, or resolved with the  *)
(* validated result, or rejected with the output validation error.          *)
C7_LineSettlesCall ==
    \A i \in DOMAIN results :
        results[i] \in DOMAIN calls => calls[results[i]].resolved

----------------------------------------------------------------------------
(* C8: in respond, a failure while resolving one Request (the handler       *)
(* rejects, or the lookup fails: no host of that name, or a host without a  *)
(* handler) becomes a streamed error Response for that Request; it never    *)
(* errors the stream and never suppresses the Response of another Request.  *)
(* Violated: factory.resolve throws synchronously for a host without a      *)
(* handler, inside forEach inside the async start(), so the stream is       *)
(* errored and the Requests after it are never looked at.                   *)
RequestFailed(i) ==
    \/ reqState[i] \in {"threw", "skipped", "lost"}
    \/ ~StoreGet(requests[i].name).defined

HasErrorResponse(i) ==
    \E k \in DOMAIN enqueued :
       enqueued[k].id = requests[i].id /\ enqueued[k].hasError

C8_FailureIsolated ==
    respondPc = "streaming" =>
        /\ ~startThrew
        /\ stream # "errored"
        /\ \A i \in DOMAIN requests :
              /\ reqState[i] \notin {"skipped", "lost"}
              /\ RequestFailed(i) => HasErrorResponse(i)

----------------------------------------------------------------------------
(* C9: for a non-empty batch the stream of respond is closed at most once,  *)
(* and not before a Response has been enqueued for every Request, whatever  *)
(* the order in which the Requests complete.                                *)
HasResponse(i) == \E k \in DOMAIN enqueued : enqueued[k].id = requests[i].id

C9_CloseAfterAll ==
    /\ closes <= 1
    /\ (stream = "closed" <=> closes = 1)
    /\ closes = 1 => \A i \in DOMAIN requests : HasResponse(i)

\* two Requests have completed in the reverse of their order and the stream
\* is closed
C9_Witness ==
    /\ stream = "closed"
    /\ Len(requests) >= 2
    /\ Len(enqueued) = Len(requests)
    /\ enqueued[1].id = requests[2].id

----------------------------------------------------------------------------
(* C10: in respond, a middleware that fails, by throwing or by returning a  *)
(* promise that rejects, does not prevent the other middleware from being   *)
(* invoked and does not abort the batch: respond goes on to the stream.     *)
(* Violated: a middleware that throws does so inside map, before            *)
(* Promise.allSettled is reached, so respond rejects and the middleware     *)
(* after it are never invoked.                                              *)
C10_MiddlewareIsolated ==
    (respondPc # "received" /\ requests # <<>>) =>
        /\ \A i \in DOMAIN mwState : mwState[i] # "idle"
        /\ respondPc # "rejected"

----------------------------------------------------------------------------
(* C11: with a continuation-local provider installed, a value a middleware  *)
(* stores with setContext(key, value) while respond processes a batch is    *)
(* what getContext(key) returns in every handler invoked for the batch.     *)
(* Violated: respond invokes the middleware before withContext(ctx, ...),   *)
(* so no Context is current in the middleware and setContext writes         *)
(* nothing; the handlers, which run inside withContext, read undefined.     *)
StoredBySetContext ==
    \E i \in DOMAIN middlewares :
       middlewares[i] = "setContext" /\ mwState[i] # "idle"

C11_ContextReachesHandlers ==
    StoredBySetContext =>
        \A i \in DOMAIN seen : seen[i] # "unset" => seen[i] = UserValue

----------------------------------------------------------------------------
(* C12: when a handler rejects on the server, with whatever value, send on  *)
(* the client rejects the Call of that id with the streamed message; the    *)
(* Call is never resolved or left unsettled by the line.                    *)
(* Violated: for an Error whose message is the empty string respond streams *)
(* error: "" (?? only replaces null and undefined), and send tests          *)
(* if (result.error), which the empty string fails: the line is taken for a *)
(* result and the Call is not rejected.                                     *)
StreamedError(i) ==
    LET k == CHOOSE k \in DOMAIN enqueued : enqueued[k].id = requests[i].id
    IN enqueued[k].error

C12_HandlerRejectionRejects ==
    \A i \in DOMAIN requests :
       (reqState[i] = "caught" /\ requests[i].id \in Range(results)) =>
           calls[requests[i].id].promise = <<"rejected", StreamedError(i)>>

----------------------------------------------------------------------------
(* C13: when the request of send comes back not ok, or without a readable   *)
(* body, every Call passed to that send ends rejected and none is resolved; *)
(* the Calls that were sent hold the transport-level error (the status text *)
(* or 'Response body is not readable'), and send does nothing to them       *)
(* afterwards.                                                              *)
C13_NonSuccessRejectsAll ==
    [][/\ (httpPc = "fetching" /\ httpPc' = "returned") =>
             \E e \in {StatusText, NotReadable} :
                \A c \in DOMAIN calls :
                   /\ calls'[c].promise[1] = "rejected"
                   /\ c \in BodyIds => calls'[c].promise = <<"rejected", e>>
       /\ httpPc = "returned" => calls' = calls]_vars

\* a batch with a Call rejected by validation and a Call that was sent, after
\* a response that was not ok
C13_Witness ==
    /\ httpPc = "returned"
    /\ \E c, d \in DOMAIN calls :
          /\ calls[c].first.by = "send"
          /\ d \in BodyIds
          /\ calls[d].first = [by |-> "response", kind |-> "rejected",
                               value |-> StatusText]
          /\ calls[c].promise[1] = "rejected"

----------------------------------------------------------------------------
(* C14: a stub without a handler, invoked on a module that has no           *)
(* transport, returns a promise that is already rejected with 'IRPC         *)
(* transport can not be found.'; for that invocation no Call is queued, no  *)
(* timeout timer is started and no send is ever performed, whatever the     *)
(* module does afterwards.                                                  *)
C14_NoTransportRejects ==
    \A c \in DOMAIN calls :
       ~calls[c].created =>
           /\ calls[c].promise = <<"rejected", TransportNotFound>>
           /\ calls[c].timer = "none"
           /\ calls[c].attempts = 0
           /\ c \notin Range(IRPC_QUEUE)
           /\ \A s \in DOMAIN sends : c \notin Range(sends[s].calls)

\* an invocation without transport, then the same module gets its transport
\* and a later invocation of it is sent
C14_Witness ==
    /\ Len(calls) >= 2
    /\ ~calls[1].created
    /\ calls[2].created
    /\ calls[2].module = calls[1].module
    /\ timeout[calls[1].module] # 0
    /\ \E s \in DOMAIN sends : 2 \in Range(sends[s].calls)

----------------------------------------------------------------------------
(* C15: at every invocation of a stub, a host that has a handler at that    *)
(* moment gets its handler called with the arguments and the result         *)
(* returned, with no Call created, nothing queued and the transport left    *)
(* alone, also when a transport is installed; a host without a handler      *)
(* makes the invocation a remote call.                                      *)
C15_LocalOrRemote ==
    [][(lastOp'.op = "invoke" /\ (lastOp' # lastOp \/ calls' # calls)) =>
          LET i == lastOp'.stub
          IN IF hosts[i].handler # "none"
             THEN /\ lastOp'.invoked = hosts[i].handler
                  /\ lastOp'.result = Apply(hosts[i].handler, lastOp'.args)
                  /\ UNCHANGED <<calls, IRPC_QUEUE, timers, sends, transport>>
             ELSE /\ lastOp'.invoked = "none"
                  /\ Len(calls') = Len(calls) + 1
                  /\ calls'[Len(calls')].module = "A"]_vars

\* a stub went remote while its host had no handler, and is called locally
\* once a handler is bound, with a transport installed
C15_Witness ==
    /\ lastOp.op = "invoke"
    /\ lastOp.invoked # "none"
    /\ transport["A"] # NoTransport
    /\ Len(hosts) = 1
    /\ Len(calls) >= 1
    /\ calls[1].created

----------------------------------------------------------------------------
(* C16: resolve(request) fails with 'IRPC can not be found.' when no host   *)
(* is stored under request.name, with 'IRPC handler can not be found.' when *)
(* the host has no handler, and otherwise invokes the handler with          *)
(* request.args and returns its result (12 for a product of [3, 4]); in the *)
(* two failing cases no handler is invoked.                                 *)
C16_Resolve ==
    lastOp.op = "resolve" =>
        IF lastOp.name \notin DOMAIN store
        THEN lastOp.thrown = NotFound /\ lastOp.invoked = "none"
        ELSE IF hosts[store[lastOp.name]].handler = "none"
        THEN lastOp.thrown = HandlerNotFound /\ lastOp.invoked = "none"
        ELSE /\ lastOp.thrown = ""
             /\ lastOp.invoked = hosts[store[lastOp.name]].handler
             /\ lastOp.result = Apply(lastOp.invoked, lastOp.args)
             /\ (lastOp.invoked = "product" /\ lastOp.args = <<3, 4>>)
                    => lastOp.result = 12

C16_Witness ==
    /\ lastOp.op = "resolve"
    /\ lastOp.name = "multiply"
    /\ lastOp.args = <<3, 4>>
    /\ lastOp.thrown = ""
    /\ lastOp.result = 12

----------------------------------------------------------------------------
(* C17: construct(stub, handler) fails with 'Invalid IRPC.' when the first  *)
(* argument is no function and with 'IRPC can not be found.' when it is a   *)
(* function this module's define did not return, and then leaves the        *)
(* handler of every host as it was; otherwise it binds the handler to the   *)
(* host registered for that stub.                                           *)
C17_Construct ==
    [][(lastOp'.op = "construct" /\ lastOp' # lastOp) =>
          LET f == lastOp'.stub
          IN IF f = 0
             THEN lastOp'.thrown = InvalidIRPC /\ hosts' = hosts
             ELSE IF f \notin DOMAIN hosts
             THEN lastOp'.thrown = NotFound /\ hosts' = hosts
             ELSE /\ lastOp'.thrown = ""
                  /\ hosts'[f].handler = lastOp'.value
                  /\ \A j \in DOMAIN hosts : j # f => hosts'[j] = hosts[j]]_vars

\* a construct with an unknown function after a handler had been bound
C17_Witness ==
    /\ lastOp.op = "construct"
    /\ lastOp.thrown = NotFound
    /\ \E j \in DOMAIN hosts : hosts[j].handler # "none"

----------------------------------------------------------------------------
(* C18: use(transport) throws 'Invalid transport.' when the value is null,  *)
(* undefined or has no send function, and the transport installed before    *)
(* stays the active one; in every other case the value becomes the active   *)
(* transport.                                                               *)
C18_Use ==
    [][(lastOp'.op = "use" /\ lastOp' # lastOp) =>
          IF lastOp'.value \in {"null", "undefined", "noSend"}
          THEN lastOp'.thrown = InvalidTransport /\ transport' = transport
          ELSE /\ lastOp'.thrown = ""
               /\ transport'["A"] = lastOp'.value]_vars

\* an invalid value was refused while a transport was installed
C18_Witness ==
    /\ lastOp.op = "use"
    /\ lastOp.thrown = InvalidTransport
    /\ transport["A"] \in Transports

----------------------------------------------------------------------------
(* C19: respond called with an empty Request array returns a no-content     *)
(* (204) result, and creates no stream and no Context and invokes no        *)
(* middleware and no handler.                                               *)
(* Violated: the 204 Response is constructed with the body '[]'; where the  *)
(* Response constructor follows the Fetch standard that throws, and respond *)
(* rejects instead of returning.                                            *)
C19_EmptyIsNoContent ==
    (requests = <<>> /\ respondPc # "received") =>
        /\ respondPc = "noContent"
        /\ stream = "none"
        /\ ctx = <<>>
        /\ enqueued = <<>>
        /\ \A i \in DOMAIN mwState : mwState[i] = "idle"

----------------------------------------------------------------------------
(* C20: when a deferred flush has fired the queue is empty and the          *)
(* scheduler is re-armed: the next call passed to batch() has a flush       *)
(* scheduled for it, a flush delivers only calls passed since the flush     *)
(* before it, and so no call is delivered by two flushes.                   *)
(* Violated: the queue is cleared after the handler returns; when the       *)
(* handler throws, clear() is skipped, the queue stays non-empty and no     *)
(* later call to batch() schedules a flush.                                 *)
C20_Rearmed ==
    [][/\ Len(flushes') > Len(flushes) =>
             /\ IRPC_QUEUE' = <<>>
             /\ Range(Last(flushes').calls) \subseteq Range(cycle)
       /\ (passes' > passes /\ Len(flushes') = Len(flushes)) =>
             /\ timers' # <<>>
             /\ IRPC_QUEUE' # <<>>]_vars

----------------------------------------------------------------------------
(* C21: two identifiers shortId returns for the same clock reading differ   *)
(* in their sequence parts, whatever their random suffixes: a call that     *)
(* reads the timestamp of the call before it uses the next sequence number, *)
(* and while the clock has not gone backwards no (timestamp, sequence) pair *)
(* is used twice, so that the identifiers of one reading are distinct.      *)
ClockNeverBack ==
    \A i \in 1..(Len(issued) - 1) : issued[i].timestamp <= issued[i + 1].timestamp

----------------------------------------------------------------------------
(* C22: while no context provider is configured, setContext(key, value)     *)
(* changes nothing and does not throw, getContext(key, fallback) returns    *)
(* the fallback (undefined when none is given) for every key, and           *)
(* withContext(context, fn) runs fn and returns its result.                 *)
C22_NoProvider ==
    [][provider = Undefined =>
          /\ ctxOp'.op = "setContext" =>
                /\ ~ctxOp'.threw
                /\ UNCHANGED <<provider, ambient>>
          /\ ctxOp'.op = "getContext" =>
                /\ ~ctxOp'.threw
                /\ ctxOp'.returned = ctxOp'.fallback
                /\ UNCHANGED <<provider, ambient>>
          /\ ctxOp'.op = "withContext" =>
                /\ ~ctxOp'.threw
                /\ ctxOp'.ran
                /\ ctxOp'.returned = FnResult]_vars

\* the provider was reset while its Map held the key: getContext has
\* returned the fallback
C22_Witness ==
    /\ provider = Undefined
    /\ ambient.active
    /\ ctxOp.op = "getContext"
    /\ ctxOp.key \in DOMAIN ambient.map
    /\ ctxOp.fallback = Fallback
    /\ ctxOp.returned = Fallback
----------------------------------------------------------------------------
(* C23: once respond has gone past its middleware step for a non-empty      *)
(* batch, every registered middleware has been invoked, and no Request of   *)
(* the batch is looked up, validated or handed to a handler while a         *)
(* middleware invocation is unsettled.                                      *)
(* Violated: the middleware are invoked inside map; one that throws ends    *)
(* the map, and the middleware registered after it are never invoked.       *)
MiddlewareSettled(i) == mwState[i] \in {"fulfilled", "rejected", "threw"}

C23_MiddlewareFirst ==
    /\ (requests # <<>> /\ respondPc \notin {"unused", "received"}) =>
          \A i \in DOMAIN mwState : mwState[i] # "idle"
    /\ (\E i \in DOMAIN reqState : reqState[i] # "idle") =>
          \A i \in DOMAIN mwState : MiddlewareSettled(i)
----------------------------------------------------------------------------
(* C24: batch() never invokes a handler itself: a flush is run by the       *)
(* scheduler, after the task that opened the cycle has returned, so it      *)
(* delivers every call queued in that task, also with delay 0; and it does  *)
(* not run before the delay of the first call of its cycle has elapsed      *)
(* since that call was queued.                                              *)
C24_Deferred ==
    [][/\ inTurn => flushes' = flushes
       /\ Len(flushes') > Len(flushes) =>
             /\ ~inTurn
             /\ \A k \in DOMAIN arrivals :
                   /\ arrivals[k].turn <= turns
                   /\ arrivals[k].call \in Range(Last(flushes').calls)
             /\ arrivals # <<>> =>
                   now >= arrivals[1].at + arrivals[1].delay]_vars

\* a flush with delay 0 that ran in the millisecond its two calls were
\* queued in one task, and a flush that waited for a delay of two
C24_Witness ==
    \E i, j \in DOMAIN flushes :
       /\ Len(flushes[i].cycle) = 2
       /\ flushes[i].cycle[1].delay = 0
       /\ flushes[i].cycle[1].turn = flushes[i].cycle[2].turn
       /\ flushes[i].at = flushes[i].cycle[1].at
       /\ Len(flushes[i].calls) = 2
       /\ flushes[j].cycle # <<>>
       /\ flushes[j].cycle[1].delay = 2
       /\ flushes[j].at = flushes[j].cycle[1].at + 2
----------------------------------------------------------------------------
(* C25: a flush cycle uses the handler and the delay of its first call      *)
(* only: a later call of the cycle changes neither the pending timer nor    *)
(* its deadline, whatever handler and delay it brings, and the one flush of *)
(* the cycle hands all its calls to the first call's handler, at the first  *)
(* call's deadline or later.                                                *)
C25_FirstCallDecides ==
    [][/\ (arrivals # <<>> /\ Len(arrivals') > Len(arrivals)) =>
             UNCHANGED <<timers, due>>
       /\ Len(flushes') > Len(flushes) =>
             /\ Len(flushes') = Len(flushes) + 1
             /\ arrivals # <<>>
             /\ Last(flushes').handler = arrivals[1].handler
             /\ Head(due) = arrivals[1].at + arrivals[1].delay
             /\ now >= Head(due)
             /\ \A k \in DOMAIN arrivals :
                   arrivals[k].call \in Range(Last(flushes').calls)]_vars

\* a cycle opened with h1 and a delay of two, joined by a call with h2 and
\* delay 0: both calls went to h1, two milliseconds after the first
C25_Witness ==
    \E i \in DOMAIN flushes :
       /\ Len(flushes[i].cycle) = 2
       /\ flushes[i].cycle[1].handler = "h1"
       /\ flushes[i].cycle[1].delay = 2
       /\ flushes[i].cycle[2].handler = "h2"
       /\ flushes[i].cycle[2].delay = 0
       /\ flushes[i].handler = "h1"
       /\ flushes[i].at = flushes[i].cycle[1].at + 2
       /\ Len(flushes[i].calls) = 2
----------------------------------------------------------------------------
(* C26: once respond streams, the Response of each Request is the one of    *)
(* the first case that applies: no host of that name, 'IRPC can not be      *)
(* found.'; a wrong number of arguments for the input schema, 'Invalid      *)
(* arguments.'; a failing input validator, its message; otherwise the       *)
(* handler is invoked, and the Response is the validated result or the      *)
(* output validator's message when it resolves, and the rejection's message *)
(* or 'Unknown error.' when it rejects.  The handler is invoked in no other *)
(* case.                                                                    *)
(* Violated: for a host without a handler factory.resolve throws inside     *)
(* forEach; the Request gets no Response and the Requests after it are not  *)
(* looked at.                                                               *)
ResponsesOf(i) == {enqueued[k] : k \in {n \in DOMAIN enqueued :
                                           enqueued[n].id = requests[i].id}}

\* the Responses the claim allows for a Request whose handler was invoked
ResolvedResponses(i) ==
    LET req == requests[i]
    IN IF StoreGet(req.name).hasOutput
       THEN {ResultLine(req.id, req.name, "good"),
             ErrorLine(req.id, req.name, ValidatorMessage)}
       ELSE {ResultLine(req.id, req.name, r) : r \in {"good", "bad"}}

RejectedResponses(i) ==
    LET req == requests[i]
    IN {ErrorLine(req.id, req.name, m) : m \in {HandlerError, "", UnknownError}}

C26_FirstMatchingCase ==
    respondPc = "streaming" =>
       \A i \in DOMAIN requests :
          LET req == requests[i]
              host == StoreGet(req.name)
              failed == {k \in DOMAIN req.args : req.args[k] # "good"}
          IN IF ~host.defined
             THEN /\ ResponsesOf(i) = {ErrorLine(req.id, req.name, NotFound)}
                  /\ seen[i] = "unset"
             ELSE IF host.hasInput /\ Len(req.args) # host.inputLen
             THEN /\ ResponsesOf(i) = {ErrorLine(req.id, req.name, InvalidArguments)}
                  /\ seen[i] = "unset"
             ELSE IF host.hasInput /\ failed # {}
             THEN /\ ResponsesOf(i) = {ErrorLine(req.id, req.name, ValidatorMessage)}
                  /\ seen[i] = "unset"
             ELSE /\ seen[i] # "unset"
                  /\ \/ reqState[i] = "running" /\ ResponsesOf(i) = {}
                     \/ /\ reqState[i] = "answered"
                        /\ Cardinality(ResponsesOf(i)) = 1
                        /\ ResponsesOf(i) \subseteq ResolvedResponses(i)
                     \/ /\ reqState[i] = "caught"
                        /\ Cardinality(ResponsesOf(i)) = 1
                        /\ ResponsesOf(i) \subseteq RejectedResponses(i)
----------------------------------------------------------------------------
(* C27: the step in which the handler of a Request settles enqueues the     *)
(* Response of that Request, whatever the other Requests of the batch are   *)
(* doing: a handler that is still running holds back no other Response, so  *)
(* Responses may be enqueued in another order than the Requests.            *)
(* Violated: after factory.resolve has thrown for a Request without a       *)
(* handler the stream is errored, and the Response of a handler that        *)
(* settles afterwards is not enqueued at all.                               *)
C27_EnqueuedWhenReady ==
    [][\A i \in DOMAIN reqState :
          (reqState[i] = "running" /\ reqState'[i] # "running") =>
             /\ Len(enqueued') = Len(enqueued) + 1
             /\ Last(enqueued').id = requests[i].id]_vars

----------------------------------------------------------------------------
(* C28: a line that is not JSON settles no Call and leaves send reading;    *)
(* and a line decoded after such a line, in the same chunk or a later one,  *)
(* settles the Call of its id.                                              *)
(* Violated: a decoded line without error settles nothing, with or without  *)
(* a garbled line before it (factory.info is given the name string, its     *)
(* TypeError is swallowed by the catch meant for JSON.parse).               *)
GarbledRead == linesRead > Len(results)

C28_GarbledSkipped ==
    [][/\ (linesRead' > linesRead /\ results' = results) =>
             /\ calls' = calls
             /\ httpPc' = "reading"
       /\ (GarbledRead' /\ Len(results') > Len(results)) =>
             /\ httpPc' = "reading"
             /\ Last(results') \in DOMAIN calls =>
                   calls'[Last(results')].resolved]_vars
----------------------------------------------------------------------------
(* C29: when send is given no Call, or only Calls whose input fails         *)
(* validation, it has issued no request and read no response when it        *)
(* returns, its result is empty, and every Call has been rejected once,     *)
(* with its own validation error.                                           *)
C29_NothingToSend ==
    ((\A c \in DOMAIN calls : InputFails(c)) /\ httpPc \notin {"unused", "queued"}) =>
        /\ httpPc = "returned"
        /\ body = <<>>
        /\ results = <<>>
        /\ linesRead = 0
        /\ \A c \in DOMAIN calls :
              /\ calls[c].attempts = 1
              /\ calls[c].first.by = "send"
              /\ calls[c].promise = <<"rejected",
                    ParseInput(payloads[c].args,
                               FactoryGet(payloads[c].name)).error>>

\* two Calls rejected with different validation errors, nothing sent
C29_Witness ==
    /\ httpPc = "returned"
    /\ body = <<>>
    /\ Len(calls) = 2
    /\ calls[1].promise = <<"rejected", InvalidArguments>>
    /\ calls[2].promise = <<"rejected", ValidatorMessage>>
----------------------------------------------------------------------------
(* C30: a remote call made while the timeout of its module is falsy has no  *)
(* timeout timer and is never rejected with 'IRPC timeout.': when it is     *)
(* settled, it was settled by the transport or by the failure of the send   *)
(* of its batch.                                                            *)
C30_NoTimerWithoutTimeout ==
    \A c \in DOMAIN calls :
       (calls[c].created /\ timeout[calls[c].module] = 0) =>
          /\ calls[c].timer = "none"
          /\ calls[c].promise # <<"rejected", TimeoutError>>
          /\ calls[c].first.by # "timer"
          /\ calls[c].resolved => calls[c].first.by \in {"transport", "submit"}

\* two calls of a module without timeout, one resolved by the transport and
\* one rejected by the failure of send
C30_Witness ==
    \E c, d \in DOMAIN calls :
       /\ timeout[calls[c].module] = 0
       /\ timeout[calls[d].module] = 0
       /\ calls[c].promise = <<"resolved", RemoteValue>>
       /\ calls[d].promise = <<"rejected", SendError>>
----------------------------------------------------------------------------
(* C31: respond creates one Context per non-empty batch, in the step that   *)
(* reads the batch, seeded with the inbound request under 'req' and its     *)
(* headers under 'headers'; the Context is cleared only by the finalize     *)
(* that empties the pending set, so it is never cleared while a Request is  *)
(* pending or its handler is running, and it is not created again.          *)
ContextCreated == requests # <<>> /\ respondPc \notin {"unused", "received"}

ContextCleared == ContextCreated /\ ctx = <<>>

C31_OneContextPerBatch ==
    [][/\ ContextCreated' /\ ~ContextCleared' =>
             /\ {"req", "headers"} \subseteq DOMAIN ctx'
             /\ ctx'["req"] = "src"
             /\ ctx'["headers"] = "src.headers"
       /\ ContextCleared' =>
             /\ pending' = {}
             /\ closes' = 1
             /\ \A i \in DOMAIN reqState' : reqState'[i] # "running"
       /\ (ctx = <<>> /\ ctx' # <<>>) => respondPc = "received"
       /\ (ctx # <<>> /\ ctx' = <<>>) => pending # {} /\ pending' = {}
       /\ (requests = <<>>) => ctx' = <<>>]_vars

\* a batch of two Requests whose handlers both ran has been answered and the
\* Context has been cleared
C31_Witness ==
    /\ ContextCleared
    /\ Len(requests) >= 2
    /\ \A i \in DOMAIN seen : seen[i] # "unset"
    /\ stream = "closed"
----------------------------------------------------------------------------
(* C32: every call passed to batch() is either still queued or has been     *)
(* handed to a handler by exactly one flush, also a call that was passed    *)
(* to batch() while a flush handler was running.                            *)
(* Violated: a call passed to batch() while the handler runs finds the      *)
(* queue non-empty, so it schedules no flush, and the clear() that follows  *)
(* the handler removes it: no flush ever delivers it.                       *)
FlushesOf(c) == {k \in DOMAIN flushes : c \in Range(flushes[k].calls)}

C32_DeliveredOnce ==
    \A c \in 1..passes :
       /\ Cardinality(FlushesOf(c)) <= 1
       /\ c \in Range(IRPC_QUEUE) \/ FlushesOf(c) # {}
----------------------------------------------------------------------------
(* C33: a flush whose handler throws still leaves none of its calls in the  *)
(* queue, a call passed to batch() after a failed flush has a flush         *)
(* pending for it, and no call of a failed flush is delivered by a second   *)
(* flush.                                                                   *)
(* Violated: the handler's exception leaves the setTimeout callback before  *)
(* IRPC_QUEUE.clear(); the calls of the failed flush stay in the queue, and *)
(* a later batch() finds the queue non-empty and schedules nothing.         *)
SomeFlushThrew == \E k \in DOMAIN flushes : flushes[k].threw

C33_UsableAfterThrow ==
    [][/\ (Len(flushes') > Len(flushes) /\ Last(flushes').threw) =>
             Range(IRPC_QUEUE') \cap Range(Last(flushes').calls) = {}
       /\ (SomeFlushThrew /\ passes' > passes /\ Len(flushes') = Len(flushes)) =>
             /\ timers' # <<>>
             /\ Len(due') = Len(timers')
       /\ \A k \in DOMAIN flushes' :
             flushes'[k].threw =>
                \A c \in Range(flushes'[k].calls) : FlushesOf(c) = {k}]_vars
----------------------------------------------------------------------------
(* C34: the promise of a remote call of a module with a positive timeout    *)
(* is eventually settled, whatever the transport does with the Call: the    *)
(* only assumption is that the scheduler runs a pending timer.  A settled   *)
(* promise stays settled and Calls are only added, so the property is that  *)
(* again and again every such Call made so far is settled.                  *)
TimedCalls == {c \in DOMAIN calls : timeout[calls[c].module] > 0}

C34_EventuallySettles ==
    []<>(\A c \in TimedCalls : calls[c].promise # <<"pending">>)

\* a Call of a module with a timeout that the transport was given and never
\* answered: its send is still pending and the timer has rejected it
C34_Witness ==
    \E c \in DOMAIN calls, s \in DOMAIN sends :
       /\ timeout[calls[c].module] > 0
       /\ c \in Range(sends[s].calls)
       /\ sends[s].state = "pending"
       /\ calls[c].attempts = 1
       /\ calls[c].promise = <<"rejected", TimeoutError>>
----------------------------------------------------------------------------
(* C35: however the chunks respond enqueued were divided into the reads of  *)
(* send, every Call is settled as if each Response had arrived as one line  *)
(* of its own: processing the Responses read so far once more, one by one,  *)
(* would settle no Call that is pending.                                    *)
(* Violated: respond enqueues JSON.stringify(...) without a newline and     *)
(* send parses each read on its own, split at newlines.  Two Responses in   *)
(* one read form one line that JSON.parse rejects, and so do both pieces of *)
(* a Response that arrives in two reads: their Calls stay pending.          *)
OnePerChunk == ProcessLines(calls, SubSeq(enqueued, 1, linesRead))

C35_ChunkingIrrelevant ==
    \A c \in DOMAIN calls : calls[c].promise = OnePerChunk[c].promise
----------------------------------------------------------------------------
(* C36: for a non-empty batch no Request ever has two Responses, and once   *)
(* respond is past its middleware step and no handler is still running,     *)
(* every Request has exactly one Response, with the id and the name of the  *)
(* Request.                                                                 *)
(* Violated: a Request whose host has no handler gets no Response, and      *)
(* neither do the Requests after it, because factory.resolve throws inside  *)
(* forEach; and when a middleware throws respond rejects before it has      *)
(* made the stream.                                                         *)
ResponseIndexes(i) == {k \in DOMAIN enqueued : enqueued[k].id = requests[i].id}

HandlersSettled == \A i \in DOMAIN reqState : reqState[i] # "running"

C36_OneResponseEach ==
    requests # <<>> =>
       \A i \in DOMAIN requests :
          /\ Cardinality(ResponseIndexes(i)) <= 1
          /\ \A k \in ResponseIndexes(i) : enqueued[k].name = requests[i].name
          /\ (respondPc \in {"streaming", "rejected"} /\ HandlersSettled) =>
                Cardinality(ResponseIndexes(i)) = 1
----------------------------------------------------------------------------
(* C37: for a non-empty batch the stream of respond is never errored, and   *)
(* once respond is past its middleware step and the work of every Request   *)
(* has completed (no handler is still running) the stream is closed.        *)
(* Violated: for a Request whose host has no handler factory.resolve throws *)
(* inside start(); the stream is errored, the Request is never finalized,   *)
(* and so the stream is never closed.                                       *)
C37_ClosedWhenDone ==
    requests # <<>> =>
       /\ stream # "errored"
       /\ (respondPc \in {"streaming", "rejected"} /\ HandlersSettled) =>
             /\ stream = "closed"
             /\ closes = 1
             /\ pending = {}
----------------------------------------------------------------------------
(* C38: a resolve of a name for which construct has bound a handler to a    *)
(* stub of that name does not throw and invokes a handler bound to a stub   *)
(* of that name, also when the name has been defined more than once.        *)
(* Violated: every define stores its new host under the name, replacing the *)
(* host of the earlier stub, while construct writes the handler to the host *)
(* of the stub it is given: resolve then finds the later host, which has no *)
(* handler.                                                                 *)
BoundHandlers(name) ==
    {hosts[i].handler :
        i \in {j \in DOMAIN hosts : hosts[j].name = name
                                    /\ hosts[j].handler # "none"}}

----------------------------------------------------------------------------
(* C39: a read of the response stream changes only Calls whose id is the    *)
(* id of a line decoded in that read: a line whose id is the id of no Call  *)
(* of the batch settles nothing, and no line resolves or rejects a Call of  *)
(* another id.                                                              *)
NewIds == Range(SubSeq(results', Len(results) + 1, Len(results')))

C39_OnlyItsOwnCall ==
    [][linesRead' > linesRead =>
          /\ DOMAIN calls' = DOMAIN calls
          /\ \A c \in DOMAIN calls : calls'[c] # calls[c] => c \in NewIds
          /\ NewIds \cap DOMAIN calls = {} => calls' = calls]_vars

\* a line with the id of no Call and an error line for one Call have been
\* read: that Call is rejected by the line and another Call is still pending
C39_Witness ==
    \E c, d \in DOMAIN calls :
       /\ c # d
       /\ 0 \in Range(results)
       /\ c \in Range(results)
       /\ calls[c].first.by = "transport"
       /\ calls[c].promise = <<"rejected", RemoteError>>
       /\ calls[d].promise = <<"pending">>
----------------------------------------------------------------------------
(* C40: with a continuation-local provider, while respond works on two      *)
(* inbound requests at once, getContext in a handler of one returns only    *)
(* what the Context of its own batch holds (its own request and headers,    *)
(* what its own handlers wrote, or undefined), no handler writes into the   *)
(* Context of the other batch, and a Context is cleared only by the         *)
(* finalize that empties the requests Set of its own batch.                 *)
OwnValues(b) == {SrcOf[b], HeadersOf[b], UserOf[b]}

StepOf(b) ==
    \/ served'[b].pc # served[b].pc
    \/ served'[b].handlers # served[b].handlers

C40_NoCrossBatch ==
    [][provider = "local" =>
          /\ lastGet'.batch # 0 =>
                lastGet'.returned \in OwnValues(lastGet'.batch) \cup {Undefined}
          /\ \A b \in Inbound :
                /\ \A k \in DOMAIN served'[b].ctx :
                      served'[b].ctx[k] \in OwnValues(b)
                /\ served'[b].ctx # served[b].ctx => StepOf(b)
                /\ (served[b].ctx # <<>> /\ served'[b].ctx = <<>>) =>
                      /\ served[b].pending # {}
                      /\ served'[b].pending = {}]_vars

\* both batches are streaming, the second one was started last and one of
\* its handlers has written its value; a handler of the first batch has just
\* read the value a handler of the first batch wrote
C40_Witness ==
    /\ provider = "local"
    /\ lastRun = 2
    /\ served[1].pc = "streaming"
    /\ served[2].pc = "streaming"
    /\ UserKey \in DOMAIN served[2].ctx
    /\ lastGet = [batch |-> 1, key |-> UserKey, returned |-> UserOf[1]]
====
